---- MODULE Spec2Model ----
(***************************************************************************)
(* Smart-door dashboard (src/app.py) and its Telegram command listener     *)
(* (src/telegram_bot.py).                                                  *)
(*                                                                         *)
(* The specifications share the variables:                                 *)
(*   Spec      recognition pipelines, manual captures, manual grants and   *)
(*             notification clears over the two bounded logs;              *)
(*   SpecRuns  the pipeline alone, called with each kind of method tag;    *)
(*   SpecLocks the lock and external-call skeleton of each function;       *)
(*   SpecLogs  one capture next to a worker handed upload after upload;    *)
(*   SpecDoor  the listener next to the SSE hub and its streams;           *)
(*   SpecPool  the async_task decorator and the two-worker executor;       *)
(*   SpecTemp  the ResourceManager and its temporary files;                *)
(*   SpecHub   the SSE hub: notify_clients and the /events streams;        *)
(*   SpecBot   the TelegramBot command listener and update_config;         *)
(*   SpecLoop  the listener loop alone, its thread scheduled fairly.       *)
(* Each thread of the program is cut into atomic steps at its lock         *)
(* sections and at its blocking external calls.                            *)
(***************************************************************************)
EXTENDS Integers, Sequences, FiniteSets, TLC

\* ------------------------------------------------------------------ bounds
\* Recognition runs started during a run of Spec: pipeline tasks submitted
\* to the executor and take_photo threads together.
MaxRuns == 2
\* Of these, the take_photo threads.
MaxCaptures == 1
\* Manual grant requests during a run (Spec).
MaxGrants == 1
\* Dashboard connections opened during a run (SpecHub).
MaxStreams == 2
\* Door commands published to the hub during a run (SpecHub).
MaxPublish == 3
\* temp_image_file scopes opened during a run (SpecTemp).
MaxScopes == 2
\* Tasks submitted to the executor during a run (SpecPool).
MaxPoolTasks == 5
\* Updates sent to the bots during a run (SpecBot), and the id Telegram
\* gives the first update of a bot.
MaxUpdates == 3
FirstUpdateId == 41
\* Threads that use the three module locks during a run (SpecLocks).
MaxThreads == 3
\* SpecLogs: no run starts once the clock has passed this many records
MaxRecords == 51
\* Runs of the pipeline completed, one after the other, before the observed
\* window starts (the other initial state is the freshly constructed one).
Prefill == 49
\* The notifications were cleared once, PrefillCleared runs before the window.
PrefillCleared == 19

\* ------------------------------------------------------- program constants
AccessCap == 50
NotifCap == 20
max_workers == 2

NoValue == "None"
\* A local that holds no dictionary yet.
Unset == [unset |-> TRUE]

VARIABLES
    \* --- src/app.py: the two logs and the threads working on them
    access_history,   \* list of access records, newest first
    notifications,    \* list of notifications, newest first
    now,              \* the clock read by datetime.now() and the uuid source
    task,             \* task id -> the locals of one pipeline run or capture
    queue,            \* executor work queue: task ids in submission order
    nsubmitted,       \* pipeline tasks submitted so far
    ncaptures,        \* capture threads started so far
    grant,            \* the locals of the grant_access request in progress
    ngrants,          \* grant requests started so far
    owed,             \* stream id -> the messages owed while connected
    \* --- src/app.py: the SSE hub
    sse_clients,      \* list of inbox objects (by identity)
    client_queue,     \* inbox object -> its pending messages
    stream,           \* stream id -> position and history of its generator
    \* --- src/telegram_bot.py
    bot,              \* the fields of the TelegramBot instance
    worker,           \* the listener thread: its position and locals
    source,           \* the command source: updates sent so far
    uc,               \* the update_config call in progress
    processed,        \* what the listener did with each update, in order
    detached,         \* live listener threads command_thread lost hold of
    \* --- src/app.py: the ResourceManager instance and the file system
    temp_files,       \* the set of tracked paths
    disk,             \* the paths that exist in the upload folder
    rm_lock,          \* the thread inside `with self.lock`, if any
    scope,            \* scope id -> position of one temp_image_file user
    shutdown,         \* the cleanup_all call: its position and its list
    \* --- src/app.py: the three module locks (SpecLocks)
    held,             \* lock name -> the thread inside its with block, if any
    thread            \* thread id -> the function it runs and its position

logVars == <<access_history, notifications, now, task, queue, nsubmitted,
             ncaptures, grant, ngrants>>
appVars == <<access_history, notifications, task, queue, nsubmitted,
             ncaptures, grant, ngrants>>
hubVars == <<sse_clients, client_queue, stream>>   \* owed is listed apart
botVars == <<bot, worker, source, uc, processed, detached>>
tempVars == <<temp_files, disk, rm_lock, scope, shutdown>>
lockVars == <<held, thread>>
vars == <<access_history, notifications, now, task, queue, nsubmitted,
          ncaptures, grant, ngrants, owed, sse_clients, client_queue,
          stream, bot, worker, source, uc, processed, detached, temp_files,
          disk, rm_lock, scope, shutdown, held, thread>>

\* ------------------------------------------------------------ list helpers
RemoveAt(s, i) == SubSeq(s, 1, i - 1) \o SubSeq(s, i + 1, Len(s))

\* list.pop(): drop the last element.
Pop(s) == SubSeq(s, 1, Len(s) - 1)

\* list.insert(0, x)
Insert0(s, x) == <<x>> \o s

LastIndex(s, filename) ==
    IF \E i \in 1..Len(s) : s[i]["filename"] = filename
    THEN CHOOSE i \in 1..Len(s) :
             /\ s[i]["filename"] = filename
             /\ \A j \in (i + 1)..Len(s) : s[j]["filename"] # filename
    ELSE 0

\* Index of the first entry with the filename, 0 when there is none: the
\* for loops of grant_access, which break at the first hit.
FirstIndex(s, filename) ==
    IF \E i \in 1..Len(s) : s[i]["filename"] = filename
    THEN CHOOSE i \in 1..Len(s) :
             /\ s[i]["filename"] = filename
             /\ \A j \in 1..(i - 1) : s[j]["filename"] # filename
    ELSE 0


\* ----------------------------------------------------------------- domains
\* File names carry the second they were saved in: two uploads within one
\* second share theirs.  upload saves visitor_*, detect_face_stream
\* stream_capture_*, take_photo manual_capture_*.
UploadFile == "visitor_1.jpg"
StreamFile == "stream_capture_1.jpg"
CaptureFile == "manual_capture_1.jpg"
OldFile == "visitor_0.jpg"
\* The file names a manual grant is asked for.
GrantFiles == {UploadFile}
RecognizerOutcomes == {"match", "nomatch", "raise"}
KnownPerson == "alice"
NotifierOutcomes == {"sent", "failed", "raise"}
ActuatorOutcomes == {"ok", "http_error", "request_exception"}

\* Runs are numbered in the order they are started.
TaskIds == 1..MaxRuns

\* The marker of a call that raised instead of returning.
Raised == [raised |-> TRUE]

\* ------------------------------------------------- FaceRecognitionService
\* recognize_face without its except clause: the exception leaves it.
recognize_face_uncaught(outcome) ==
    CASE outcome = "match" ->
            [access_granted |-> TRUE, recognized_person |-> KnownPerson,
             status |-> "granted"]
      [] outcome = "nomatch" ->
            [access_granted |-> FALSE, recognized_person |-> NoValue,
             status |-> "denied"]
      [] OTHER -> Raised

\* DeepFace.find either finds a match, finds none, or raises; recognize_face
\* turns each of the three into a result dictionary.
recognize_face(outcome) ==
    CASE outcome = "match" ->
            [access_granted |-> TRUE, recognized_person |-> KnownPerson,
             status |-> "granted"]
      [] outcome = "nomatch" ->
            [access_granted |-> FALSE, recognized_person |-> NoValue,
             status |-> "denied"]
      [] OTHER ->
            [access_granted |-> FALSE, recognized_person |-> NoValue,
             status |-> "error", error |-> "exception"]

\* dict.get(key): the value, or None when the key is absent.
Get(d, key) == IF key \in DOMAIN d THEN d[key] ELSE NoValue

\* d[key] = value on a dictionary.
SetItem(d, key, value) ==
    [k \in DOMAIN d \cup {key} |-> IF k = key THEN value ELSE d[k]]

\* ---------------------------------------------------- AccessRecordManager
\* uuid.uuid4(): a fresh identifier; the n-th record takes 2n, its
\* notification 2n+1.
RecordUuid(n) == 2 * n
NotificationUuid(n) == 2 * n + 1

create_access_record(filename, recognition_result, method, ts) ==
    [id |-> RecordUuid(ts),
     timestamp |-> ts,
     filename |-> filename,
     image_url |-> <<"/uploads/", filename>>,
     access_granted |-> recognition_result["access_granted"],
     status |-> recognition_result["status"],
     method |-> method,
     recognized_person |-> Get(recognition_result, "recognized_person"),
     recognition_result |->
         IF recognition_result["access_granted"]
         THEN "Persoana recunoscuta" ELSE "Persoana necunoscuta"]

\* create_notification copying every key of the record.
create_notification_all_keys(record) ==
    [record EXCEPT !["id"] = NotificationUuid(record["timestamp"])]

create_notification(record) ==
    [id |-> NotificationUuid(record["timestamp"]),
     timestamp |-> record["timestamp"],
     filename |-> record["filename"],
     image_url |-> record["image_url"],
     access_granted |-> record["access_granted"],
     status |-> record["status"],
     recognition_result |-> record["recognition_result"],
     method |-> record["method"]]

\* add_access_record without the eviction.
AccessInsertKeepAll(history, record) == Insert0(history, record)

\* The list after add_access_record's critical section.
AccessInsert(history, record) ==
    LET inserted == Insert0(history, record)
    IN  IF Len(inserted) > AccessCap THEN Pop(inserted) ELSE inserted

\* add_notification evicting with pop(0): the entry just inserted goes.
NotifInsertPopFirst(notifs, notification) ==
    LET inserted == Insert0(notifs, notification)
    IN  IF Len(inserted) > NotifCap THEN Tail(inserted) ELSE inserted

\* The list after add_notification's critical section.
NotifInsert(notifs, notification) ==
    LET inserted == Insert0(notifs, notification)
    IN  IF Len(inserted) > NotifCap THEN Pop(inserted) ELSE inserted

\* --------------------------------------------------------- notify_clients
\* Appends the message to every inbox of the registry, once per entry of
\* the registry.  `owed` keeps, for every stream whose generator is between
\* its registration and its close, the messages published in that time.
Entries(c) == Cardinality({i \in 1..Len(sse_clients) : sse_clients[i] = c})

Connected(c) == stream[c].pc \in {"registered", "streaming"}

notify_clients(message) ==
    /\ client_queue' = [c \in DOMAIN client_queue |->
                          IF Entries(c) > 0
                          THEN Append(client_queue[c], message)
                          ELSE client_queue[c]]
    /\ owed' = [c \in DOMAIN owed |->
                  IF Connected(c) THEN Append(owed[c], message) ELSE owed[c]]

\* json.dumps({"type": ..., "data": ...}) of a pipeline or capture event.
Event(type, data) == [type |-> type, data |-> data]

\* ------------------------------------------------------------- the tasks
IdleTask == [kind |-> "none", pc |-> "idle", filename |-> NoValue,
             method |-> <<>>, recognizer |-> NoValue,
             result |-> Unset, record |-> Unset,
             notification |-> Unset, effects |-> <<>>, events |-> <<>>,
             future |-> "none"]

Running(t) == task[t].pc \notin {"idle", "queued", "done"}

UnwindUncaught(t) ==
    [task EXCEPT ![t].pc = "done", ![t].future = "raised"]

\* An exception leaving func inside run_task: caught by the wrapper, which
\* returns None; the future resolves with that value.  In capture_and_process
\* the except clause returns a dictionary to the thread.
Unwind(t) ==
    IF task[t].kind = "pipeline"
    THEN [task EXCEPT ![t].pc = "done", ![t].future = "returned_none"]
    ELSE [task EXCEPT ![t].pc = "done"]

\* async_task's wrapper around process_face_recognition_async: submits
\* run_task to the executor and returns the future at once.
process_face_recognition_async(image, method) ==
    /\ nsubmitted + ncaptures < MaxRuns
    /\ nsubmitted' = nsubmitted + 1
    /\ task' = [task EXCEPT ![nsubmitted + ncaptures + 1] =
                   [IdleTask EXCEPT !.kind = "pipeline", !.pc = "queued",
                                    !.filename = image, !.method = method,
                                    !.future = "pending"]]
    /\ queue' = Append(queue, nsubmitted + ncaptures + 1)
    /\ UNCHANGED <<access_history, notifications, now, ncaptures, grant,
                   ngrants, owed, hubVars, botVars, tempVars, lockVars>>

\* upload: the image is saved, then handed to the pipeline.
upload == process_face_recognition_async(UploadFile, <<"automatic">>)

\* detect_face_stream, a face being found in the frame.
detect_face_stream ==
    process_face_recognition_async(StreamFile, <<"stream_detection">>)

\* A free executor worker takes the oldest queued task.
WorkerTakes ==
    /\ queue # <<>>
    /\ Cardinality({t \in TaskIds : task[t].kind = "pipeline" /\ Running(t)})
           < max_workers
    /\ task' = [task EXCEPT ![Head(queue)].pc = "recognize"]
    /\ queue' = Tail(queue)
    /\ UNCHANGED <<access_history, notifications, now, nsubmitted, ncaptures,
                   grant, ngrants, owed, hubVars, botVars, tempVars,
                   lockVars>>

\* FaceRecognitionService.recognize_face returns.
Recognize(t, outcome) ==
    /\ task[t].pc = "recognize"
    /\ LET result == recognize_face(outcome)
       IN  task' =
             IF "raised" \in DOMAIN result
             THEN [Unwind(t) EXCEPT ![t].recognizer = outcome,
                                    ![t].effects = Append(@, "recognize")]
             ELSE [task EXCEPT ![t].pc = "add_record",
                               ![t].recognizer = outcome,
                               ![t].result = result,
                               ![t].effects = Append(@, "recognize")]
    /\ UNCHANGED <<access_history, notifications, now, queue, nsubmitted,
                   ncaptures, grant, ngrants, owed, hubVars, botVars,
                   tempVars, lockVars>>

\* create_access_record, then add_access_record under access_history_lock.
\* The clock is read within the step: a timestamp is the stamp of one
\* record, and its order against other records' stamps follows the order
\* of insertion.
add_access_record(t) ==
    /\ task[t].pc = "add_record"
    /\ LET record == create_access_record(task[t].filename, task[t].result,
                                          task[t].method, now)
       IN  /\ access_history' = AccessInsert(access_history, record)
           /\ task' = [task EXCEPT ![t].pc = "add_notification",
                                   ![t].record = record,
                                   ![t].effects = Append(@, "add_record")]
    /\ now' = now + 1
    /\ UNCHANGED <<notifications, queue, nsubmitted, ncaptures, grant,
                   ngrants, owed, hubVars, botVars, tempVars, lockVars>>

\* What a run does after its two insertions: the pipeline calls the
\* notifier, capture_and_process goes on to the door.
AfterNotification_no_notifier(kind, access_granted) ==
    IF access_granted THEN "open_door" ELSE "publish"

AfterNotification(kind, access_granted) ==
    IF kind = "pipeline" THEN "notify"
    ELSE IF access_granted THEN "open_door" ELSE "publish"

\* if recognition_result["access_granted"]: the door is opened before the
\* event is published.
AfterNotify_opens(access_granted) == "open_door"

AfterNotify(access_granted) ==
    IF access_granted THEN "open_door" ELSE "publish"

\* create_notification, then add_notification under notifications_lock.
add_notification(t) ==
    /\ task[t].pc = "add_notification"
    /\ LET notification == create_notification(task[t].record)
       IN  /\ notifications' = NotifInsert(notifications, notification)
           /\ task' = [task EXCEPT
                         ![t].pc = AfterNotification(
                                       task[t].kind,
                                       task[t].result["access_granted"]),
                         ![t].notification = notification,
                         ![t].effects = Append(@, "add_notification")]
    /\ UNCHANGED <<access_history, now, queue, nsubmitted, ncaptures, grant,
                   ngrants, owed, hubVars, botVars, tempVars, lockVars>>

\* telegram_bot.send_visitor_notification inside the pipeline's try/except:
\* sent, not sent, or raised (caught and logged).  What leaves the try
\* statement: nothing, or the exception.
TryNotifier_uncaught(outcome) ==
    IF outcome = "raise" THEN "raised" ELSE "passed"

TryNotifier(outcome) == "passed"

Notify(t, outcome) ==
    /\ task[t].pc = "notify"
    /\ task' =
         IF TryNotifier(outcome) = "raised"
         THEN [Unwind(t) EXCEPT ![t].effects = Append(@, "notify")]
         ELSE [task EXCEPT
                 ![t].pc = AfterNotify(task[t].result["access_granted"]),
                 ![t].effects = Append(@, "notify")]
    /\ UNCHANGED <<access_history, notifications, now, queue, nsubmitted,
                   ncaptures, grant, ngrants, owed, hubVars, botVars,
                   tempVars, lockVars>>

\* ESP32Controller.open_door: success only on a 200 response; a
\* RequestException is caught inside open_door.
open_door_result_uncaught(outcome) ==
    IF outcome = "request_exception" THEN Raised
    ELSE [success |-> outcome = "ok"]

open_door_result(outcome) == [success |-> outcome = "ok"]

OpenDoor(t, outcome) ==
    /\ task[t].pc = "open_door"
    /\ task' =
         IF "success" \in DOMAIN open_door_result(outcome)
         THEN [task EXCEPT
                 ![t].pc = "publish",
                 ![t].effects = Append(@, "open_door")]
         ELSE [Unwind(t) EXCEPT ![t].effects = Append(@, "open_door")]
    /\ UNCHANGED <<access_history, notifications, now, queue, nsubmitted,
                   ncaptures, grant, ngrants, owed, hubVars, botVars,
                   tempVars, lockVars>>

\* The event type chosen at the end of process_face_recognition_async.
EventType_ignores_grant(method, access_granted) ==
    IF method = <<"automatic">> THEN "new_visitor"
    ELSE IF method = <<"stream_detection">> THEN "stream_face_recognized"
    ELSE "face_recognition_complete"

EventType(method, access_granted) ==
    IF method = <<"automatic">> THEN "new_visitor"
    ELSE IF method = <<"stream_detection">>
         THEN (IF access_granted THEN "stream_face_recognized"
               ELSE "stream_face_denied")
         ELSE "face_recognition_complete"

\* The pipeline's last step: notify_clients, then return record.
Publish(t) ==
    /\ task[t].pc = "publish"
    /\ task[t].kind = "pipeline"
    /\ notify_clients(Event(
           EventType(task[t].method, task[t].result["access_granted"]),
           task[t].notification))
    /\ task' = [task EXCEPT
                  ![t].pc = "done",
                  ![t].future = "returned_record",
                  ![t].events = Append(@, Event(
                      EventType(task[t].method,
                                task[t].result["access_granted"]),
                      task[t].notification)),
                  ![t].effects = Append(@, "publish")]
    /\ UNCHANGED <<access_history, notifications, now, queue, nsubmitted,
                   ncaptures, grant, ngrants, sse_clients, stream, botVars,
                   tempVars, lockVars>>


\* ------------------------------------------------------------- take_photo
\* take_photo starts a thread running capture_and_process.
take_photo ==
    /\ nsubmitted + ncaptures < MaxRuns
    /\ ncaptures < MaxCaptures
    /\ ncaptures' = ncaptures + 1
    /\ task' = [task EXCEPT ![nsubmitted + ncaptures + 1] =
                   [IdleTask EXCEPT !.kind = "capture", !.pc = "capture",
                                    !.method = <<"manual">>]]
    /\ UNCHANGED <<access_history, notifications, now, queue, nsubmitted,
                   grant, ngrants, owed, hubVars, botVars, tempVars,
                   lockVars>>

\* ESP32Controller.capture_image returns the image or None; with an image
\* the file is written under its manual_capture_ name.
CaptureImage(t, got_image) ==
    /\ task[t].pc = "capture"
    /\ task' = IF got_image
               THEN [task EXCEPT ![t].pc = "recognize",
                                 ![t].filename = CaptureFile]
               ELSE [task EXCEPT ![t].pc = "done"]
    /\ UNCHANGED <<access_history, notifications, now, queue, nsubmitted,
                   ncaptures, grant, ngrants, owed, hubVars, botVars,
                   tempVars, lockVars>>

\* capture_and_process's last step: notify_clients, then return record.
CapturePublish(t) ==
    /\ task[t].pc = "publish"
    /\ task[t].kind = "capture"
    /\ notify_clients(Event("manual_capture_with_recognition",
                            task[t].notification))
    /\ task' = [task EXCEPT
                  ![t].pc = "done",
                  ![t].events = Append(@, Event(
                      "manual_capture_with_recognition",
                      task[t].notification)),
                  ![t].effects = Append(@, "publish")]
    /\ UNCHANGED <<access_history, notifications, now, queue, nsubmitted,
                   ncaptures, grant, ngrants, sse_clients, stream, botVars,
                   tempVars, lockVars>>

\* ----------------------------------------------------------- grant_access
IdleGrant == [pc |-> "idle", filename |-> NoValue, record_updated |-> FALSE,
              notification_updated |-> FALSE, events |-> <<>>]

\* The request arrives.
GrantBegin(filename) ==
    /\ grant.pc \in {"idle", "done"}
    /\ ngrants < MaxGrants
    /\ ngrants' = ngrants + 1
    /\ grant' = [IdleGrant EXCEPT !.pc = "history", !.filename = filename]
    /\ UNCHANGED <<access_history, notifications, now, task, queue,
                   nsubmitted, ncaptures, owed, hubVars, botVars,
                   tempVars, lockVars>>

\* The record after the assignments of the first loop's body.
GrantRecord(record, ts) ==
    SetItem([record EXCEPT !["access_granted"] = TRUE,
                           !["status"] = "granted",
                           !["method"] = Append(@, "_manual_override"),
                           !["recognition_result"] = "Acces permis manual"],
            "manual_grant_timestamp", ts)

GrantNotificationFlagOnly(notification) ==
    [notification EXCEPT !["access_granted"] = TRUE]

\* The notification after the assignments of the second loop's body.
GrantNotification(notification) ==
    [notification EXCEPT !["access_granted"] = TRUE,
                         !["status"] = "granted",
                         !["recognition_result"] = "Acces permis manual"]

\* A run's locals `record` and `notification` name the very dictionaries
\* that sit in the lists: an assignment to a list entry shows through them.
HoldsRecord(t, id) ==
    /\ task[t].pc \in {"add_notification", "notify", "open_door", "publish",
                        "done"}
    /\ "add_record" \in {task[t].effects[k] : k \in 1..Len(task[t].effects)}
    /\ task[t].record["id"] = id

HoldsNotification(t, id) ==
    /\ task[t].pc \in {"notify", "open_door", "publish", "done"}
    /\ "add_notification" \in
           {task[t].effects[k] : k \in 1..Len(task[t].effects)}
    /\ task[t].notification["id"] = id

\* First critical section, under access_history_lock.
GrantHistory ==
    /\ grant.pc = "history"
    /\ LET i == FirstIndex(access_history, grant.filename)
       IN  /\ access_history' =
                 IF i = 0 THEN access_history
                 ELSE [access_history EXCEPT
                         ![i] = GrantRecord(access_history[i], now)]
           /\ task' =
                 IF i = 0 THEN task
                 ELSE [t \in TaskIds |->
                         IF HoldsRecord(t, access_history[i]["id"])
                         THEN [task[t] EXCEPT
                                 !.record = GrantRecord(access_history[i], now)]
                         ELSE task[t]]
           /\ grant' = [grant EXCEPT !.pc = "notifications",
                                     !.record_updated = (i # 0)]
    /\ UNCHANGED <<notifications, now, queue, nsubmitted, ncaptures,
                   ngrants, owed, hubVars, botVars, tempVars, lockVars>>

\* Second critical section, under notifications_lock.
GrantNotifications ==
    /\ grant.pc = "notifications"
    /\ LET i == FirstIndex(notifications, grant.filename)
       IN  /\ notifications' =
                 IF i = 0 THEN notifications
                 ELSE [notifications EXCEPT
                         ![i] = GrantNotification(notifications[i])]
           /\ task' =
                 IF i = 0 THEN task
                 ELSE [t \in TaskIds |->
                         IF HoldsNotification(t, notifications[i]["id"])
                         THEN [task[t] EXCEPT
                                 !.notification =
                                     GrantNotification(notifications[i])]
                         ELSE task[t]]
           /\ grant' = [grant EXCEPT
                          !.pc = IF grant.record_updated THEN "publish"
                                 ELSE "done",
                          !.notification_updated = (i # 0)]
    /\ UNCHANGED <<access_history, now, queue, nsubmitted, ncaptures,
                   ngrants, owed, hubVars, botVars, tempVars, lockVars>>

\* record_updated: the record is looked up again by filename under
\* access_history_lock and, when found, sent to the clients.
GrantPublish ==
    /\ grant.pc = "publish"
    /\ LET i == FirstIndex(access_history, grant.filename)
       IN  IF i = 0
           THEN /\ grant' = [grant EXCEPT !.pc = "done"]
                /\ UNCHANGED <<client_queue, owed>>
           ELSE /\ notify_clients(Event("access_granted_manual",
                                        access_history[i]))
                /\ grant' = [grant EXCEPT
                               !.pc = "done",
                               !.events = Append(@, Event(
                                   "access_granted_manual",
                                   access_history[i]))]
    /\ UNCHANGED <<access_history, notifications, now, task, queue,
                   nsubmitted, ncaptures, ngrants, sse_clients, stream,
                   botVars, tempVars, lockVars>>

\* ---------------------------------------------------- clear_notifications
clear_notifications ==
    /\ notifications' = <<>>
    /\ UNCHANGED <<access_history, now, task, queue, nsubmitted, ncaptures,
                   grant, ngrants, owed, hubVars, botVars, tempVars,
                   lockVars>>


\* -------------------------------------------------------------- the streams
StreamIds == 1..MaxStreams

NewStream == [pc |-> "new", last |-> NoValue, emitted |-> <<>>]

\* ------------------------------------------------- door_controller_callback
\* The callback injected into the bot: one telegram_open_door event through
\* notify_clients; it returns success.
DoorEvent(ts) == [type |-> "telegram_open_door",
                  message |-> "Telegram door open command received",
                  timestamp |-> ts]

\* A callback wired to the actuator instead of the hub: nothing is published.
door_controller_callback_direct ==
    /\ UNCHANGED <<client_queue, owed>>
    /\ now' = now + 1

door_controller_callback ==
    /\ notify_clients(DoorEvent(now))
    /\ now' = now + 1

\* ------------------------------------------------------ sse.event_stream
\* The generator starts: a new empty list is appended to sse_clients under
\* sse_clients_lock.  Connections are numbered in the order they start.
Register(c) ==
    /\ stream[c].pc = "new"
    /\ \A d \in StreamIds : d < c => stream[d].pc # "new"
    /\ sse_clients' = Append(sse_clients, c)
    /\ client_queue' = [client_queue EXCEPT ![c] = <<>>]
    /\ stream' = [stream EXCEPT ![c].pc = "registered"]
    /\ UNCHANGED <<logVars, owed, botVars, tempVars, lockVars>>

\* yield of the connected event.
EmitConnected(c) ==
    /\ stream[c].pc = "registered"
    /\ stream' = [stream EXCEPT ![c].pc = "streaming",
                                ![c].last = "connected"]
    /\ UNCHANGED <<logVars, owed, sse_clients, client_queue, botVars,
                   tempVars, lockVars>>

\* list.pop(): the newest message instead of the oldest.
pop_last(q) == [msg |-> q[Len(q)], rest |-> SubSeq(q, 1, Len(q) - 1)]

\* client_queue.pop(0): the message returned and the list left.
pop0(q) == [msg |-> Head(q), rest |-> Tail(q)]

\* One turn of the while loop, resumed by the server: the oldest pending
\* message is popped and yielded, or a ping is yielded; then sleep(1).
Tick(c) ==
    /\ stream[c].pc = "streaming"
    /\ IF client_queue[c] # <<>>
       THEN /\ client_queue' = [client_queue EXCEPT ![c] = pop0(@).rest]
            /\ stream' = [stream EXCEPT
                            ![c].last = "event",
                            ![c].emitted = Append(@, pop0(client_queue[c]).msg)]
       ELSE /\ stream' = [stream EXCEPT ![c].last = "ping"]
            /\ UNCHANGED client_queue
    /\ UNCHANGED <<logVars, owed, sse_clients, botVars, tempVars, lockVars>>

\* `x in lst` and lst.remove(x) compare each entry with x by identity or by
\* ==, and two lists are == when their contents are: the first entry that
\* is this inbox or holds the same pending messages.
FirstEqual(c) ==
    IF \E i \in 1..Len(sse_clients) :
          sse_clients[i] = c \/ client_queue[sse_clients[i]] = client_queue[c]
    THEN CHOOSE i \in 1..Len(sse_clients) :
           /\ sse_clients[i] = c
                 \/ client_queue[sse_clients[i]] = client_queue[c]
           /\ \A j \in 1..(i - 1) :
                 /\ sse_clients[j] # c
                 /\ client_queue[sse_clients[j]] # client_queue[c]
    ELSE 0

\* The transport closes the generator while it is suspended at a yield:
\* GeneratorExit, and the cleanup under sse_clients_lock.
Disconnect(c) ==
    /\ stream[c].pc = "streaming"
    /\ sse_clients' = IF FirstEqual(c) = 0 THEN sse_clients
                      ELSE RemoveAt(sse_clients, FirstEqual(c))
    /\ stream' = [stream EXCEPT ![c].pc = "closed"]
    /\ UNCHANGED <<logVars, owed, client_queue, botVars, tempVars, lockVars>>

\* A door command reaches the hub (SpecHub): the injected callback runs.
HubPublish ==
    /\ now <= MaxPublish
    /\ door_controller_callback
    /\ UNCHANGED <<access_history, notifications, task, queue, nsubmitted,
                   ncaptures, grant, ngrants, sse_clients, stream, botVars,
                   tempVars, lockVars>>

\* ------------------------------------------------------------ TelegramBot
\* Tokens and chat ids of the configuration file (strings), and the chat
\* ids carried by updates (integers).
Tokens == {"tokA", "tokB"}
ChatIds == {"1", "2"}

\* str() of a chat id below ten.
Digits == <<"0", "1", "2", "3", "4", "5", "6", "7", "8", "9">>
str(n) == Digits[n + 1]

\* Message texts are sequences of characters.
OpenText == <<"/", "o", "p", "e", "n">>
ShoutText == <<"/", "O", "P", "E", "N", " ">>
PlainText == <<"o", "p", "e", "n">>
StatusText == <<"/", "s", "t", "a", "t", "u", "s">>
HelpText == <<"/", "h", "e", "l", "p">>
SettingsText == <<"/", "s", "e", "t", "t", "i", "n", "g", "s">>

LowerChar(ch) ==
    CASE ch = "O" -> "o"
      [] ch = "P" -> "p"
      [] ch = "E" -> "e"
      [] ch = "N" -> "n"
      [] OTHER -> ch

lower(text) == [i \in 1..Len(text) |-> LowerChar(text[i])]

RECURSIVE lstrip(_)
lstrip(text) ==
    IF text # <<>> /\ Head(text) = " " THEN lstrip(Tail(text)) ELSE text

RECURSIVE rstrip(_)
rstrip(text) ==
    IF text # <<>> /\ text[Len(text)] = " "
    THEN rstrip(SubSeq(text, 1, Len(text) - 1))
    ELSE text

strip(text) == rstrip(lstrip(text))

startswith(text, prefix) ==
    /\ Len(text) >= Len(prefix)
    /\ SubSeq(text, 1, Len(prefix)) = prefix

\* What an update carries besides its id: a message of a chat, or another
\* kind of update with no "message" key.
Message(chat, text) == [message |-> [chat |-> [id |-> chat], text |-> text]]

\* A "text" key whose value is null: message.get("text", "") gives None.
JsonNull == <<NoValue>>

Bodies ==
    {Message(1, OpenText), Message(2, OpenText), Message(1, ShoutText),
     Message(1, PlainText), Message(1, JsonNull), [channel_post |-> TRUE]}

\* The bot of the first token is sent any of these; the bot the
\* configuration is switched to is sent /open by the first chat.
BodiesOf(token) == IF token = "tokA" THEN Bodies ELSE {Message(1, OpenText)}

Update(update_id, body) ==
    [k \in DOMAIN body \cup {"update_id"} |->
       IF k = "update_id" THEN update_id ELSE body[k]]

\* TelegramBot(bot_token, chat_id) followed by set_door_controller: the
\* instance the application holds.
TelegramBot(bot_token, chat_id) ==
    [bot_token |-> bot_token, chat_id |-> chat_id, enabled |-> TRUE,
     command_offset |-> 0, command_thread |-> FALSE, running |-> FALSE,
     door_controller |-> TRUE]

is_configured(b) == b.bot_token # "" /\ b.chat_id # ""

\* send_message: whether the reply is handed to the Telegram API.
send_message(b) == b.enabled /\ is_configured(b)

\* handle_command: the reply it returns, and whether it calls the injected
\* door controller on the way.
CallsDoor(b, text) == strip(lower(text)) = OpenText /\ b.door_controller

handle_command(b, text) ==
    LET command == strip(lower(text)) IN
    CASE command = OpenText ->
           IF b.door_controller THEN "command_sent" ELSE "unavailable"
      [] command = StatusText -> "status"
      [] command = HelpText -> "help"
      [] command = SettingsText -> "settings"
      [] OTHER -> "unknown"

\* The thread object held in command_thread is alive from its start until
\* its loop has ended.
is_alive == worker.pc \notin {"none", "exited"}

\* start_command_listener creates a thread unless the one it holds is alive
\* or the bot is not configured.
Starts_any(b, alive) == is_configured(b)

Starts(b, alive) == ~(b.command_thread /\ alive) /\ is_configured(b)

start_command_listener_reset(b, alive) ==
    IF Starts(b, alive)
    THEN [b EXCEPT !.running = TRUE, !.command_thread = TRUE,
                   !.command_offset = 0]
    ELSE b

start_command_listener(b, alive) ==
    IF Starts(b, alive)
    THEN [b EXCEPT !.running = TRUE, !.command_thread = TRUE]
    ELSE b

stop_command_listener(b) == [b EXCEPT !.running = FALSE]

NoWorker == [pc |-> "none", token |-> "", offset |-> 0, batch |-> <<>>]
\* A worker at its loop test; the locals of an iteration that is over are
\* dead and are left out of the state.
NewWorker == [pc |-> "loop", token |-> "", offset |-> 0, batch |-> <<>>]

\* The assignment to command_thread drops the reference to the thread held
\* before and does not end it: the threads that are alive and no longer
\* referred to, after a call of start_command_listener.
Detached(b, alive) ==
    IF Starts(b, alive) /\ alive THEN detached + 1 ELSE detached

\* The application, or an operator of it, starts the listener.
StartListener ==
    /\ uc.pc = "idle"
    /\ bot' = start_command_listener(bot, is_alive)
    /\ worker' = IF Starts(bot, is_alive) THEN NewWorker ELSE worker
    /\ detached' = Detached(bot, is_alive)
    /\ UNCHANGED <<logVars, owed, hubVars, source, uc, processed,
                   tempVars, lockVars>>

StopListener ==
    /\ uc.pc = "idle"
    /\ bot' = stop_command_listener(bot)
    /\ UNCHANGED <<logVars, owed, hubVars, worker, source, uc, processed,
                   detached, tempVars, lockVars>>

\* update_config up to its time.sleep(1): the assignments, and the stop
\* when the token or the chat id has changed while the listener runs.  An
\* absent enabled argument is the empty sequence.
restart_needed_always(b, bot_token, chat_id) == TRUE

restart_needed(b, bot_token, chat_id) ==
    \/ bot_token # NoValue /\ bot_token # b.bot_token
    \/ chat_id # NoValue /\ chat_id # b.chat_id

Assigned(b, bot_token, chat_id, enabled) ==
    [b EXCEPT !.bot_token = IF bot_token # NoValue THEN bot_token ELSE @,
              !.chat_id = IF chat_id # NoValue THEN chat_id ELSE @,
              !.enabled = IF enabled # <<>> THEN enabled[1] ELSE @]

UpdateConfigBegin(bot_token, chat_id, enabled) ==
    /\ uc.pc = "idle"
    /\ IF restart_needed(bot, bot_token, chat_id) /\ bot.running
       THEN /\ bot' = stop_command_listener(
                         Assigned(bot, bot_token, chat_id, enabled))
            /\ uc' = [pc |-> "pause", before |-> bot.command_offset,
                      last |-> uc.last]
       ELSE /\ bot' = Assigned(bot, bot_token, chat_id, enabled)
            /\ uc' = [uc EXCEPT !.last = "no_restart"]
    /\ UNCHANGED <<logVars, owed, hubVars, worker, source, processed,
                   detached, tempVars, lockVars>>

\* update_config after the pause: start_command_listener, and the return.
UpdateConfigResume ==
    /\ uc.pc = "pause"
    /\ bot' = start_command_listener(bot, is_alive)
    /\ worker' = IF Starts(bot, is_alive) THEN NewWorker ELSE worker
    /\ detached' = Detached(bot, is_alive)
    /\ uc' = [pc |-> "idle", before |-> 0, last |-> "restarted"]
    /\ UNCHANGED <<logVars, owed, hubVars, source, processed, tempVars, lockVars>>

\* ------------------------------------------------------ the command source
\* A chat sends a message to one of the bots; Telegram numbers the updates
\* of a bot consecutively.
Sent == Len(source["tokA"]) + Len(source["tokB"])

SendUpdate(token, body) ==
    /\ Sent < MaxUpdates
    /\ source' = [source EXCEPT
                    ![token] = Append(@, Update(FirstUpdateId + Len(@),
                                                body))]
    /\ UNCHANGED <<logVars, owed, hubVars, bot, worker, uc, processed,
                   detached, tempVars, lockVars>>

AtOrAbove(updates, offset) ==
    IF updates = <<>> THEN 0
    ELSE IF \E i \in 1..Len(updates) : updates[i].update_id >= offset
    THEN CHOOSE i \in 1..Len(updates) :
           /\ updates[i].update_id >= offset
           /\ \A j \in 1..(i - 1) : updates[j].update_id < offset
    ELSE 0

getUpdates_any(token, offset) == source[token]

\* getUpdates with an offset: the updates of the bot whose id is at or
\* above the offset, in ascending order.
getUpdates(token, offset) ==
    IF AtOrAbove(source[token], offset) = 0 THEN <<>>
    ELSE SubSeq(source[token], AtOrAbove(source[token], offset),
                Len(source[token]))

\* ------------------------------------------------ _command_listener_worker
FetchOutcomes == {"ok", "timeout", "status_error", "exception"}

\* while self.running: the test of the flag.
LoopTest_always(b) == TRUE

LoopTest(b) == b.running

WorkerLoop ==
    /\ worker.pc = "loop"
    /\ worker' = [NewWorker EXCEPT
                    !.pc = IF LoopTest(bot) THEN "request" ELSE "exited"]
    /\ UNCHANGED <<logVars, owed, hubVars, bot, source, uc, processed,
                   detached, tempVars, lockVars>>

\* The request is built from the fields as they are now and sent.
params_no_offset(b) == [offset |-> 0]

params(b) == [offset |-> b.command_offset]

SendRequest ==
    /\ worker.pc = "request"
    /\ worker' = [worker EXCEPT !.pc = "fetch",
                                !.token = bot.bot_token,
                                !.offset = params(bot).offset]
    /\ UNCHANGED <<logVars, owed, hubVars, bot, source, uc, processed,
                   detached, tempVars, lockVars>>

\* except Exception: the error is printed and the thread sleeps.
ExceptException_uncaught == [NewWorker EXCEPT !.pc = "exited"]

ExceptException == [NewWorker EXCEPT !.pc = "backoff"]

\* Where the worker is once requests.get has returned or raised: in the
\* for loop over a result that is not empty, back at the loop test, in the
\* handler of Timeout, or in a time.sleep(5).
AfterFetch_sleeps(w, outcome) ==
    CASE outcome = "ok" ->
           LET result == getUpdates(w.token, w.offset) IN
           IF result = <<>> THEN NewWorker
           ELSE [w EXCEPT !.batch = result, !.pc = "batch"]
      [] outcome = "status_error" -> [NewWorker EXCEPT !.pc = "backoff"]
      [] OTHER -> ExceptException

AfterFetch(w, outcome) ==
    CASE outcome = "ok" ->
           LET result == getUpdates(w.token, w.offset) IN
           IF result = <<>> THEN NewWorker
           ELSE [w EXCEPT !.batch = result, !.pc = "batch"]
      [] outcome = "timeout" -> [NewWorker EXCEPT !.pc = "timeout"]
      [] outcome = "status_error" -> [NewWorker EXCEPT !.pc = "backoff"]
      [] OTHER -> ExceptException

\* requests.get returns or raises.
FetchReturns(outcome) ==
    /\ worker.pc = "fetch"
    /\ worker' = AfterFetch(worker, outcome)
    /\ UNCHANGED <<logVars, owed, hubVars, bot, source, uc, processed,
                   detached, tempVars, lockVars>>

\* except requests.exceptions.Timeout: continue.
Continue ==
    /\ worker.pc = "timeout"
    /\ worker' = [worker EXCEPT !.pc = "loop"]
    /\ UNCHANGED <<logVars, owed, hubVars, bot, source, uc, processed,
                   detached, tempVars, lockVars>>

\* time.sleep(5) is over.
BackoffEnds ==
    /\ worker.pc = "backoff"
    /\ worker' = [worker EXCEPT !.pc = "loop"]
    /\ UNCHANGED <<logVars, owed, hubVars, bot, source, uc, processed,
                   detached, tempVars, lockVars>>

NextOffset_same(update_id) == update_id

NextOffset(update_id) == update_id + 1

\* self.command_offset = update["update_id"] + 1, for the next update of
\* the batch.
AdvanceCursor ==
    /\ worker.pc = "batch"
    /\ bot' = [bot EXCEPT
                 !.command_offset = NextOffset(Head(worker.batch).update_id)]
    /\ worker' = [worker EXCEPT !.pc = "process"]
    /\ UNCHANGED <<logVars, owed, hubVars, source, uc, processed,
                   detached, tempVars, lockVars>>

Authorized_any(sender, chat_id) == TRUE

Authorized(sender, chat_id) == str(sender) = chat_id

\* The checks of the loop body behind `if self.enabled`.
Dispatches_if_enabled(b, update) ==
    /\ b.enabled
    /\ "message" \in DOMAIN update
    /\ Authorized(update.message.chat.id, b.chat_id)
    /\ startswith(update.message.text, <<"/">>)

Dispatches(b, update) ==
    /\ "message" \in DOMAIN update
    /\ Authorized(update.message.chat.id, b.chat_id)
    /\ startswith(update.message.text, <<"/">>)

\* text.startswith raises AttributeError on a text that is None; the check
\* of the chat comes first.
ProcessingRaises(b, update) ==
    /\ "message" \in DOMAIN update
    /\ Authorized(update.message.chat.id, b.chat_id)
    /\ update.message.text = JsonNull

\* The rest of the loop body for that update: the checks, handle_command
\* and the reply.  `processed` keeps what was done with the update.  An
\* exception leaves the for loop for `except Exception` and its sleep.
ProcessUpdate ==
    /\ worker.pc = "process"
    /\ LET update == Head(worker.batch)
           dispatched == Dispatches(bot, update)
           calls == dispatched /\ CallsDoor(bot, update.message.text)
       IN /\ processed' = Append(processed,
                [token |-> worker.token,
                 update |-> update,
                 chat_id |-> bot.chat_id,
                 cursor |-> bot.command_offset,
                 reply |-> IF dispatched
                           THEN handle_command(bot, update.message.text)
                           ELSE IF ProcessingRaises(bot, update)
                           THEN "raised"
                           ELSE "no_reply",
                 replied |-> dispatched /\ send_message(bot),
                 door_calls |-> IF calls THEN 1 ELSE 0])
          /\ IF calls
             THEN door_controller_callback
             ELSE UNCHANGED <<now, client_queue, owed>>
    /\ worker' = IF ProcessingRaises(bot, Head(worker.batch))
                 THEN ExceptException
                 ELSE IF Tail(worker.batch) = <<>> THEN NewWorker
                 ELSE [worker EXCEPT !.batch = Tail(@), !.pc = "batch"]
    /\ UNCHANGED <<appVars, sse_clients, stream, bot, source, uc,
                   detached, tempVars, lockVars>>

\* --------------------------------------------------------- ResourceManager
ScopeIds == 1..MaxScopes
AtExit == 0
NoThread == -1

\* NamedTemporaryFile gives every scope a name of its own.
TempPath(s) == s

NewScope == [pc |-> "new", body |-> NoValue, left |-> NoValue]

\* temp_image_file up to its yield: the file is created and closed, then
\* tracked under the lock.
ScopeCreate(s) ==
    /\ scope[s].pc = "new"
    /\ \A r \in ScopeIds : r < s => scope[r].pc # "new"
    /\ disk' = disk \cup {TempPath(s)}
    /\ scope' = [scope EXCEPT ![s].pc = "created"]
    /\ UNCHANGED <<logVars, owed, hubVars, botVars, temp_files, rm_lock,
                   shutdown, lockVars>>

ScopeTrack(s) ==
    /\ scope[s].pc = "created"
    /\ rm_lock = NoThread
    /\ temp_files' = temp_files \cup {TempPath(s)}
    /\ scope' = [scope EXCEPT ![s].pc = "body"]
    /\ UNCHANGED <<logVars, owed, hubVars, botVars, disk, rm_lock, shutdown,
                   lockVars>>

\* The body of the with statement moves or deletes the file itself.
BodyRemoves(s) ==
    /\ scope[s].pc = "body"
    /\ TempPath(s) \in disk
    /\ disk' = disk \ {TempPath(s)}
    /\ UNCHANGED <<logVars, owed, hubVars, botVars, temp_files, rm_lock,
                   scope, shutdown, lockVars>>

\* The body calls cleanup_file on its path before it ends.
BodyCallsCleanup(s) ==
    /\ scope[s].pc = "body"
    /\ scope' = [scope EXCEPT ![s].pc = "body_cleanup"]
    /\ UNCHANGED <<logVars, owed, hubVars, botVars, temp_files, disk,
                   rm_lock, shutdown, lockVars>>

\* The body ends, normally or by an exception: the finally clause calls
\* cleanup_file.
BodyOutcomes == {"normal", "exception"}

BodyEnds(s, outcome) ==
    /\ scope[s].pc = "body"
    /\ scope' = [scope EXCEPT ![s].pc = "finally", ![s].body = outcome]
    /\ UNCHANGED <<logVars, owed, hubVars, botVars, temp_files, disk,
                   rm_lock, shutdown, lockVars>>

\* The body of cleanup_file under the lock: what it leaves tracked and on
\* disk.  os.remove succeeds or raises; the except clause prints.
RemoveOutcomes == {"ok", "error"}

TrackedAfter(file_path, rm) ==
    IF file_path \in temp_files /\ ~(file_path \in disk /\ rm = "error")
    THEN temp_files \ {file_path}
    ELSE temp_files

DiskAfter(file_path, rm) ==
    IF file_path \in temp_files /\ file_path \in disk /\ rm = "ok"
    THEN disk \ {file_path}
    ELSE disk

\* The thread is at a call of cleanup_file, and the path it passes.
AtCleanup(th) ==
    IF th = AtExit THEN shutdown.pc = "cleanup_file"
    ELSE scope[th].pc \in {"body_cleanup", "finally"}

CleanupPath(th) ==
    IF th = AtExit THEN CHOOSE p \in shutdown.todo : TRUE ELSE TempPath(th)

\* cleanup_file: `with self.lock` is entered when no thread is inside it,
\* the thread that calls included; the section runs and the call returns.
cleanup_file(th, rm) ==
    /\ AtCleanup(th)
    /\ rm_lock = NoThread
    /\ temp_files' = TrackedAfter(CleanupPath(th), rm)
    /\ disk' = DiskAfter(CleanupPath(th), rm)
    /\ IF th = AtExit
       THEN /\ shutdown' = [shutdown EXCEPT
                              !.pc = "loop",
                              !.todo = @ \ {CleanupPath(th)}]
            /\ UNCHANGED scope
       ELSE /\ scope' = [scope EXCEPT
                           ![th].pc = IF scope[th].pc = "finally"
                                      THEN "exited" ELSE "body",
                           ![th].left =
                               IF scope[th].pc = "finally"
                               THEN scope[th].body ELSE @]
            /\ UNCHANGED shutdown
    /\ UNCHANGED <<logVars, owed, hubVars, botVars, rm_lock, lockVars>>

\* cleanup_all: the lock is taken and the tracked set copied to a list.
CleanupAllBegin ==
    /\ shutdown.pc = "idle"
    /\ rm_lock = NoThread
    /\ rm_lock' = AtExit
    /\ shutdown' = [pc |-> "loop", todo |-> temp_files]
    /\ UNCHANGED <<logVars, owed, hubVars, botVars, temp_files, disk, scope,
                   lockVars>>

\* The for loop of cleanup_all, still inside the lock: the next path is
\* passed to cleanup_file, or the list is done and the lock released.
CleanupAllLoop ==
    /\ shutdown.pc = "loop"
    /\ IF shutdown.todo = {}
       THEN /\ shutdown' = [shutdown EXCEPT !.pc = "done"]
            /\ rm_lock' = NoThread
       ELSE /\ shutdown' = [shutdown EXCEPT !.pc = "cleanup_file"]
            /\ UNCHANGED rm_lock
    /\ UNCHANGED <<logVars, owed, hubVars, botVars, temp_files, disk, scope,
                   lockVars>>

InitTemp ==
    /\ temp_files = {}
    /\ disk = {}
    /\ rm_lock = NoThread
    /\ scope = [s \in ScopeIds |-> NewScope]
    /\ shutdown = [pc |-> "idle", todo |-> {}]

\* --------------------------------------------------------- the three locks
\* What each kind of thread does with access_history_lock,
\* notifications_lock and sse_clients_lock and with the services outside
\* the program, in the order of its statements: a with block is an acquire
\* and a release, an external call a call and a return.
Locks == {"access_history_lock", "notifications_lock", "sse_clients_lock"}

With(lock) == <<[op |-> "acquire", arg |-> lock],
                [op |-> "release", arg |-> lock]>>

Call(service) == <<[op |-> "call", arg |-> service],
                   [op |-> "return", arg |-> service]>>

\* grant_access holding access_history_lock while it takes
\* notifications_lock.
GrantProgram_nested ==
    <<[op |-> "acquire", arg |-> "access_history_lock"]>>
    \o With("notifications_lock")
    \o <<[op |-> "release", arg |-> "access_history_lock"]>>
    \o With("access_history_lock") \o With("sse_clients_lock")

GrantProgram ==
    With("access_history_lock") \o With("notifications_lock")
    \o With("access_history_lock") \o With("sse_clients_lock")

PipelineProgram ==
    Call("recognizer") \o With("access_history_lock")
    \o With("notifications_lock") \o Call("notifier") \o Call("actuator")
    \o With("sse_clients_lock")

CaptureProgram ==
    Call("camera") \o Call("recognizer") \o With("access_history_lock")
    \o With("notifications_lock") \o Call("actuator")
    \o With("sse_clients_lock")

Program(kind) ==
    CASE kind = "pipeline" -> PipelineProgram
      [] kind = "capture" -> CaptureProgram
      [] kind = "grant" -> GrantProgram
      [] kind = "get_access_history" -> With("access_history_lock")
      [] kind = "get_notifications" -> With("notifications_lock")
      [] kind = "clear_notifications" -> With("notifications_lock")
      [] kind = "listener" ->
           Call("command_source") \o With("sse_clients_lock")
      [] kind = "event_stream" ->
           With("sse_clients_lock") \o With("sse_clients_lock")
      [] OTHER -> <<>>

ThreadKinds == {"pipeline", "capture", "grant", "get_access_history",
                "get_notifications", "clear_notifications", "listener",
                "event_stream"}

ThreadIds == 1..MaxThreads
NoHolder == 0

HeldBy(th) == {lock \in Locks : held[lock] = th}

Finished(th) == thread[th].pc > Len(Program(thread[th].kind))

\* The thread is between the call and the return of an external service.
InCall(th) ==
    /\ thread[th].pc > 1
    /\ ~Finished(th)
    /\ Program(thread[th].kind)[thread[th].pc - 1].op = "call"

\* A request or a task starts in a thread of its own.
ThreadStart(th, kind) ==
    /\ thread[th].kind = "none"
    /\ \A other \in ThreadIds : other < th => thread[other].kind # "none"
    /\ thread' = [thread EXCEPT ![th] = [kind |-> kind, pc |-> 1]]
    /\ UNCHANGED <<logVars, owed, hubVars, botVars, tempVars, held>>

\* The next statement of the thread; an acquire waits for the lock to be
\* free, whoever holds it.
ThreadStep(th) ==
    /\ thread[th].kind # "none"
    /\ ~Finished(th)
    /\ LET stmt == Program(thread[th].kind)[thread[th].pc] IN
       CASE stmt.op = "acquire" ->
              /\ held[stmt.arg] = NoHolder
              /\ held' = [held EXCEPT ![stmt.arg] = th]
         [] stmt.op = "release" ->
              held' = [held EXCEPT ![stmt.arg] = NoHolder]
         [] OTHER -> UNCHANGED held
    /\ thread' = [thread EXCEPT ![th].pc = @ + 1]
    /\ UNCHANGED <<logVars, owed, hubVars, botVars, tempVars>>

InitLocks ==
    /\ held = [lock \in Locks |-> NoHolder]
    /\ thread = [th \in ThreadIds |-> [kind |-> "none", pc |-> 1]]

\* ---------------------------------------------------------- initial state
InitHub ==
    /\ sse_clients = <<>>
    /\ client_queue = [c \in StreamIds |-> <<>>]
    /\ stream = [c \in StreamIds |-> NewStream]
    /\ owed = [c \in StreamIds |-> <<>>]

\* The bot as the application holds it after loading its configuration.
InitBot(bot_token, chat_id) ==
    /\ bot = TelegramBot(bot_token, chat_id)
    /\ worker = NoWorker
    /\ source = [token \in Tokens |-> <<>>]
    /\ uc = [pc |-> "idle", before |-> 0, last |-> "none"]
    /\ processed = <<>>
    /\ detached = 0

\* The record and the notification left by the k-th earlier run (a denied
\* automatic upload of OldFile).
OldRecord(k) ==
    create_access_record(OldFile, recognize_face("nomatch"),
                         <<"automatic">>, k)

\* The logs after n earlier runs, newest first; the notifications were
\* cleared before the last m of them.
OldHistory(n) == [i \in 1..n |-> OldRecord(n + 1 - i)]
OldNotifications(n, m) ==
    [i \in 1..m |-> create_notification(OldRecord(n + 1 - i))]

InitLogs(n, m) ==
    /\ access_history = OldHistory(n)
    /\ notifications = OldNotifications(n, m)
    /\ now = n + 1
    /\ task = [t \in TaskIds |-> IdleTask]
    /\ queue = <<>>
    /\ nsubmitted = 0
    /\ ncaptures = 0
    /\ grant = IdleGrant
    /\ ngrants = 0

\* The program right after construction, or after Prefill earlier runs.
Init ==
    /\ \/ InitLogs(0, 0)
       \/ InitLogs(Prefill, PrefillCleared)
    /\ InitHub
    /\ InitBot("", "")
    /\ InitTemp
    /\ InitLocks

Next ==
    \/ upload
    \/ WorkerTakes
    \/ \E t \in TaskIds, o \in RecognizerOutcomes : Recognize(t, o)
    \/ \E t \in TaskIds : add_access_record(t)
    \/ \E t \in TaskIds : add_notification(t)
    \/ \E t \in TaskIds, o \in NotifierOutcomes : Notify(t, o)
    \/ \E t \in TaskIds, o \in ActuatorOutcomes : OpenDoor(t, o)
    \/ \E t \in TaskIds : Publish(t)
    \/ take_photo
    \/ \E t \in TaskIds, got \in BOOLEAN : CaptureImage(t, got)
    \/ \E t \in TaskIds : CapturePublish(t)
    \/ \E f \in GrantFiles : GrantBegin(f)
    \/ GrantHistory
    \/ GrantNotifications
    \/ GrantPublish
    \/ clear_notifications

Spec == Init /\ [][Next]_vars

\* --------------------------------------------------------------- SpecLocks
InitLocksSpec ==
    /\ InitLogs(0, 0)
    /\ InitHub
    /\ InitBot("", "")
    /\ InitTemp
    /\ InitLocks

NextLocks ==
    \/ \E th \in ThreadIds, kind \in ThreadKinds : ThreadStart(th, kind)
    \/ \E th \in ThreadIds : ThreadStep(th)

SpecLocks == InitLocksSpec /\ [][NextLocks]_vars

\* ---------------------------------------------------------------- SpecRuns
\* The pipeline by itself, called with the two method tags of the routes
\* and with another one.
Methods == {<<"automatic">>, <<"stream_detection">>, <<"manual">>}

ImageOf(method) ==
    CASE method = <<"automatic">> -> UploadFile
      [] method = <<"stream_detection">> -> StreamFile
      [] OTHER -> CaptureFile

InitRuns ==
    /\ InitLogs(0, 0)
    /\ InitHub
    /\ InitBot("", "")
    /\ InitTemp
    /\ InitLocks

NextRuns ==
    \/ \E method \in Methods :
          process_face_recognition_async(ImageOf(method), method)
    \/ WorkerTakes
    \/ \E t \in TaskIds, o \in RecognizerOutcomes : Recognize(t, o)
    \/ \E t \in TaskIds : add_access_record(t)
    \/ \E t \in TaskIds : add_notification(t)
    \/ \E t \in TaskIds, o \in NotifierOutcomes : Notify(t, o)
    \/ \E t \in TaskIds, o \in ActuatorOutcomes : OpenDoor(t, o)
    \/ \E t \in TaskIds : Publish(t)

SpecRuns == InitRuns /\ [][NextRuns]_vars

\* ---------------------------------------------------------------- SpecPool
\* async_task and the executor by themselves: the decorated function is one
\* step that returns or raises.
PoolIds == 1..MaxPoolTasks
FuncOutcomes == {"returns", "raises"}

\* wrapper: executor.submit(run_task), the future returned at once.
Submit ==
    /\ nsubmitted < MaxPoolTasks
    /\ nsubmitted' = nsubmitted + 1
    /\ task' = [task EXCEPT ![nsubmitted + 1] =
                   [IdleTask EXCEPT !.kind = "pipeline", !.pc = "queued",
                                    !.future = "pending"]]
    /\ queue' = Append(queue, nsubmitted + 1)
    /\ UNCHANGED <<access_history, notifications, now, ncaptures, grant,
                   ngrants, owed, hubVars, botVars, tempVars, lockVars>>

Busy == {t \in DOMAIN task : task[t].pc = "running"}

\* A free worker of the executor takes the oldest queued task.
PoolTake ==
    /\ queue # <<>>
    /\ Cardinality(Busy) < max_workers
    /\ task' = [task EXCEPT ![Head(queue)].pc = "running"]
    /\ queue' = Tail(queue)
    /\ UNCHANGED <<access_history, notifications, now, nsubmitted, ncaptures,
                   grant, ngrants, owed, hubVars, botVars, tempVars,
                   lockVars>>

\* run_task: func returns its value, or raises and the except clause
\* returns None.
run_task(t, outcome) ==
    /\ task[t].pc = "running"
    /\ task' = IF outcome = "raises"
               THEN [Unwind(t) EXCEPT ![t].effects = <<"raise">>]
               ELSE [task EXCEPT ![t].pc = "done",
                                 ![t].effects = <<"return">>,
                                 ![t].future = "returned_value"]
    /\ UNCHANGED <<access_history, notifications, now, queue, nsubmitted,
                   ncaptures, grant, ngrants, owed, hubVars, botVars,
                   tempVars, lockVars>>

InitPool ==
    /\ access_history = <<>>
    /\ notifications = <<>>
    /\ now = 1
    /\ task = [t \in PoolIds |-> IdleTask]
    /\ queue = <<>>
    /\ nsubmitted = 0
    /\ ncaptures = 0
    /\ grant = IdleGrant
    /\ ngrants = 0
    /\ InitHub
    /\ InitBot("", "")
    /\ InitTemp
    /\ InitLocks

NextPool ==
    \/ Submit
    \/ PoolTake
    \/ \E t \in PoolIds, o \in FuncOutcomes : run_task(t, o)

\* A worker that is free takes a queued task, and a function that was
\* started ends.
SpecPool ==
    /\ InitPool
    /\ [][NextPool]_vars
    /\ WF_vars(PoolTake)
    /\ \A t \in PoolIds : WF_vars(\E o \in FuncOutcomes : run_task(t, o))

\* ---------------------------------------------------------------- SpecTemp
InitTempSpec ==
    /\ InitLogs(0, 0)
    /\ InitHub
    /\ InitBot("", "")
    /\ InitTemp
    /\ InitLocks

NextTemp ==
    \/ \E s \in ScopeIds : ScopeCreate(s)
    \/ \E s \in ScopeIds : ScopeTrack(s)
    \/ \E s \in ScopeIds : BodyRemoves(s)
    \/ \E s \in ScopeIds : BodyCallsCleanup(s)
    \/ \E s \in ScopeIds, o \in BodyOutcomes : BodyEnds(s, o)
    \/ \E th \in ScopeIds \cup {AtExit}, rm \in RemoveOutcomes :
          cleanup_file(th, rm)
    \/ CleanupAllBegin
    \/ CleanupAllLoop

SpecTemp == InitTempSpec /\ [][NextTemp]_vars

\* ----------------------------------------------------------------- SpecHub
InitHubSpec ==
    /\ InitLogs(0, 0)
    /\ InitHub
    /\ InitBot("", "")
    /\ InitTemp
    /\ InitLocks

NextHub ==
    \/ \E c \in StreamIds : Register(c)
    \/ \E c \in StreamIds : EmitConnected(c)
    \/ \E c \in StreamIds : Tick(c)
    \/ \E c \in StreamIds : Disconnect(c)
    \/ HubPublish

SpecHub == InitHubSpec /\ [][NextHub]_vars


\* ======================================================== claims under Spec
AddsRecord(t) ==
    task[t].pc = "add_record" /\ task'[t].pc = "add_notification"

AddsNotification(t) ==
    task[t].pc = "add_notification" /\ task'[t].pc # "add_notification"

Publishes(t) ==
    task[t].pc = "publish" /\ task'[t].pc = "done"

\* C1: in every reachable state the access log holds at most 50 entries and
\* the notification log at most 20, whatever pipeline runs, manual captures,
\* manual grants and notification clears have been interleaved.
C1_LogsWithinCapacity ==
    /\ Len(access_history) <= AccessCap
    /\ Len(notifications) <= NotifCap

\* Both logs are full and each has evicted an entry it started with.
C1_Witness ==
    /\ Len(access_history) = AccessCap
    /\ access_history[AccessCap]["timestamp"] > 1
    /\ Len(notifications) = NotifCap
    /\ notifications[NotifCap]["timestamp"] > Prefill - PrefillCleared + 1

\* C2: an insertion into a log L with capacity C leaves the new entry
\* followed by L when L has fewer than C entries, and the new entry followed
\* by L without its last entry when L has C entries.
C2_InsertFrontEvictsOldest ==
    [][\A t \in TaskIds :
         /\ AddsRecord(t) =>
              access_history' =
                  <<task'[t].record>> \o
                  (IF Len(access_history) < AccessCap THEN access_history
                   ELSE SubSeq(access_history, 1, AccessCap - 1))
         /\ AddsNotification(t) =>
              notifications' =
                  <<task'[t].notification>> \o
                  (IF Len(notifications) < NotifCap THEN notifications
                   ELSE SubSeq(notifications, 1, NotifCap - 1))]_vars

\* A run has just inserted its notification into a full log: it is at the
\* front, and the log has lost exactly its former last entry.
C2_Witness ==
    \E t \in TaskIds :
       /\ task[t].pc \in {"notify", "open_door", "publish"}
       /\ Len(notifications) = NotifCap
       /\ notifications[1] = task[t].notification
       /\ notifications[NotifCap]["timestamp"] = Prefill - PrefillCleared + 2
       /\ Len(access_history) = AccessCap
       /\ access_history[AccessCap]["timestamp"] = 2

\* A pipeline run of an upload whose recognizer reported the known person.
AliceRun(t) ==
    /\ task[t].kind = "pipeline"
    /\ task[t].method = <<"automatic">>
    /\ task[t].recognizer = "match"

\* C9 as stated: such a run inserts a granted record and publishes a
\* new_visitor event whose data carries recognized_person = "alice".
C9_EventCarriesPerson ==
    [][\A t \in TaskIds : AliceRun(t) =>
         /\ AddsRecord(t) =>
              /\ access_history'[1]["access_granted"] = TRUE
              /\ access_history'[1]["status"] = "granted"
         /\ Publishes(t) =>
              /\ task'[t].events[1]["type"] = "new_visitor"
              /\ "recognized_person" \in DOMAIN task'[t].events[1]["data"]
              /\ task'[t].events[1]["data"]["recognized_person"] = KnownPerson
      ]_vars

\* C9, amended: such a run inserts at the front of the access log a record
\* with access_granted = true, status "granted" and recognized_person =
\* "alice", and publishes exactly one event, of type new_visitor, whose data
\* is the run's notification: access_granted = true, status "granted", and
\* no recognized_person key.
C9_EventCarriesNotification ==
    [][\A t \in TaskIds : AliceRun(t) =>
         /\ AddsRecord(t) =>
              /\ access_history'[1] = task'[t].record
              /\ access_history'[1]["access_granted"] = TRUE
              /\ access_history'[1]["status"] = "granted"
              /\ access_history'[1]["recognized_person"] = KnownPerson
         /\ Publishes(t) =>
              /\ Len(task'[t].events) = 1
              /\ task'[t].events[1]["type"] = "new_visitor"
              /\ task'[t].events[1]["data"] = task[t].notification
              /\ task'[t].events[1]["data"]["access_granted"] = TRUE
              /\ task'[t].events[1]["data"]["status"] = "granted"
              /\ "recognized_person" \notin
                     DOMAIN task'[t].events[1]["data"]
      ]_vars

C9_Witness ==
    \E t \in TaskIds :
       /\ AliceRun(t)
       /\ task[t].pc = "done"
       /\ Len(task[t].events) = 1
       /\ task[t].events[1]["type"] = "new_visitor"

\* A pipeline run whose recognizer failed internally.
FailedRecognition(t) ==
    /\ task[t].kind = "pipeline"
    /\ task[t].recognizer = "raise"

\* C10: when the recognizer fails internally the run still inserts a record
\* with access_granted = false and status "error", goes on to insert the
\* notification, call the notifier and publish, and its future resolves
\* with the record: no error reaches the submitter.
C10_RecognizerFailureIsRecorded ==
    [][\A t \in TaskIds :
         /\ (FailedRecognition(t) /\ AddsRecord(t)) =>
              /\ access_history'[1] = task'[t].record
              /\ access_history'[1]["access_granted"] = FALSE
              /\ access_history'[1]["status"] = "error"
         /\ (task'[t].kind = "pipeline" /\ task'[t].recognizer = "raise"
               /\ task'[t].pc = "done") =>
              /\ task'[t].effects = <<"recognize", "add_record",
                                      "add_notification", "notify",
                                      "publish">>
              /\ Len(task'[t].events) = 1
              /\ task'[t].future = "returned_record"
      ]_vars

C10_Witness ==
    \E t \in TaskIds :
       /\ FailedRecognition(t)
       /\ task[t].pc = "done"
       /\ Len(task[t].events) = 1
       /\ task[t].events[1]["data"]["status"] = "error"


\* ----------------------------------------------------------------- SpecBot
InitBotSpec ==
    /\ InitLogs(0, 0)
    /\ InitHub
    /\ InitBot("tokA", "1")
    /\ InitTemp
    /\ InitLocks

\* The steps of the listener thread.
WorkerStep ==
    \/ WorkerLoop
    \/ SendRequest
    \/ \E outcome \in FetchOutcomes : FetchReturns(outcome)
    \/ Continue
    \/ BackoffEnds
    \/ AdvanceCursor
    \/ ProcessUpdate

NextBot ==
    \/ StartListener
    \/ StopListener
    \/ \E bot_token \in {NoValue, "tokB"}, chat_id \in {NoValue, "2"},
          enabled \in {<<>>, <<FALSE>>} :
          UpdateConfigBegin(bot_token, chat_id, enabled)
    \/ UpdateConfigResume
    \/ \E token \in Tokens :
          \E body \in BodiesOf(token) : SendUpdate(token, body)
    \/ WorkerStep

SpecBot == InitBotSpec /\ [][NextBot]_vars

\* The listener alone, its configuration fixed (a token and a chat id, or
\* the empty token of a missing configuration file): the bot is started and
\* stopped and is sent updates.  The listener thread is scheduled again and
\* again, and every network call it makes returns (requests.get is given
\* timeout=35, time.sleep(5) ends).
InitLoopSpec ==
    /\ InitLogs(0, 0)
    /\ InitHub
    /\ \E bot_token \in {"tokA", ""} : InitBot(bot_token, "1")
    /\ InitTemp
    /\ InitLocks

NextLoop ==
    \/ StartListener
    \/ StopListener
    \/ \E body \in Bodies : SendUpdate("tokA", body)
    \/ WorkerStep

SpecLoop == InitLoopSpec /\ [][NextLoop]_vars /\ WF_vars(WorkerStep)

\* The listener next to the SSE hub: streams connect, read and disconnect
\* while the first chat and a foreign chat send /open and /status.
DoorBodies ==
    {Message(1, OpenText), Message(2, OpenText), Message(1, StatusText)}

NextDoor ==
    \/ StartListener
    \/ \E body \in DoorBodies : SendUpdate("tokA", body)
    \/ WorkerStep
    \/ \E c \in StreamIds : Register(c)
    \/ \E c \in StreamIds : EmitConnected(c)
    \/ \E c \in StreamIds : Tick(c)
    \/ \E c \in StreamIds : Disconnect(c)

SpecDoor == InitBotSpec /\ [][NextDoor]_vars

\* One manual capture next to an executor worker that is handed upload
\* after upload: the visitors are unknown, the notifier answers.  A new
\* upload arrives when the run of the one before has ended, and its task
\* takes the place of that run.
FirstUpload == nsubmitted = 0 /\ upload

UploadAgain(t) ==
    /\ task[t].kind = "pipeline"
    /\ task[t].pc = "done"
    /\ now <= MaxRecords
    /\ task' = [task EXCEPT ![t] =
                   [IdleTask EXCEPT !.kind = "pipeline", !.pc = "queued",
                                    !.filename = UploadFile,
                                    !.method = <<"automatic">>,
                                    !.future = "pending"]]
    /\ queue' = Append(queue, t)
    /\ UNCHANGED <<access_history, notifications, now, nsubmitted,
                   ncaptures, grant, ngrants, owed, hubVars, botVars,
                   tempVars, lockVars>>

InitLogsSpec ==
    /\ InitLogs(0, 0)
    /\ InitHub
    /\ InitBot("", "")
    /\ InitTemp
    /\ InitLocks

NextLogs ==
    \/ FirstUpload
    \/ \E t \in TaskIds : UploadAgain(t)
    \/ WorkerTakes
    \/ take_photo
    \/ \E t \in TaskIds : CaptureImage(t, TRUE)
    \/ \E t \in TaskIds : Recognize(t, "nomatch")
    \/ \E t \in TaskIds : add_access_record(t)
    \/ \E t \in TaskIds : add_notification(t)
    \/ \E t \in TaskIds : Notify(t, "sent")
    \/ \E t \in TaskIds : Publish(t)
    \/ \E t \in TaskIds : CapturePublish(t)

SpecLogs == InitLogsSpec /\ [][NextLogs]_vars

\* ===================================================== claims under SpecHub
\* C3: each connected stream emits exactly the events published after its
\* inbox was registered, in publish order, without loss or duplication,
\* whatever the other streams do; an inbox whose stream has disconnected
\* receives nothing further.  As a state property: what a stream has emitted
\* followed by what waits in its inbox is the sequence of events published
\* between its registration and its disconnection.
C3_EveryStreamGetsEveryEvent ==
    \A c \in StreamIds :
       stream[c].pc # "new" =>
          stream[c].emitted \o client_queue[c] = owed[c]

\* ===================================================== claims under SpecBot
IsOpen(e) ==
    /\ "message" \in DOMAIN e.update
    /\ e.update.message.text = OpenText

FromConfiguredChat(e) == str(e.update.message.chat.id) = e.chat_id

\* How many times the door callback has been invoked for one update.
DoorCalls(token, update_id) ==
    Cardinality({i \in DOMAIN processed :
                   /\ processed[i].token = token
                   /\ processed[i].update.update_id = update_id
                   /\ processed[i].door_calls = 1})

\* C4: for every update the listener has fetched and handled whose text is
\* /open, the injected door callback has been invoked exactly once for that
\* update when the sender chat id equals the configured chat id, and not at
\* all when it differs.
C4_OpenCallsDoorOnceIfAuthorized ==
    \A i \in DOMAIN processed :
       IsOpen(processed[i]) =>
          DoorCalls(processed[i].token, processed[i].update.update_id)
             = IF FromConfiguredChat(processed[i]) THEN 1 ELSE 0

C4_Witness ==
    \E i, j \in DOMAIN processed :
       /\ IsOpen(processed[i])
       /\ FromConfiguredChat(processed[i])
       /\ processed[i].door_calls = 1
       /\ IsOpen(processed[j])
       /\ ~FromConfiguredChat(processed[j])
       /\ processed[j].door_calls = 0

\* C5: the cursor is set to the id of an update plus 1 before the update is
\* processed, whatever the update is: while the rest of the loop body runs
\* for update u, and whenever the handler has run for u, the cursor is
\* u + 1; so it is the last id plus 1 once a batch is done (43 after a
\* batch ending in update 42).
C5_CursorAdvancedBeforeProcessing ==
    /\ worker.pc = "process" =>
          bot.command_offset = Head(worker.batch).update_id + 1
    /\ \A i \in DOMAIN processed :
          processed[i].cursor = processed[i].update.update_id + 1
    /\ (worker.pc # "process" /\ processed # <<>>) =>
          bot.command_offset
             = processed[Len(processed)].update.update_id + 1

C5_Witness ==
    /\ worker.pc = "loop"
    /\ Len(processed) >= 2
    /\ processed[Len(processed)].update.update_id = 42
    /\ processed[Len(processed)].reply = "no_reply"
    /\ bot.command_offset = 43

\* C6: the cursor never decreases, whatever the listener and its callers
\* do (fetches that succeed, time out or fail, stops, starts, configuration
\* updates), the command source returning only updates at or above the
\* offset it is asked for.
C6_CursorNeverDecreases ==
    [][bot'.command_offset >= bot.command_offset]_vars

C6_Witness ==
    /\ uc.last = "restarted"
    /\ \E i, j \in DOMAIN processed :
          /\ i < j
          /\ processed[i].token = "tokA"
          /\ processed[j].token = "tokB"
          /\ processed[j].cursor > processed[i].cursor

\* A step of stop_command_listener, start_command_listener or update_config
\* that changes anything changes one of these.
ListenerCallStep ==
    \/ uc' # uc
    \/ bot'.running # bot.running
    \/ bot'.command_thread # bot.command_thread
    \/ bot'.bot_token # bot.bot_token
    \/ bot'.chat_id # bot.chat_id
    \/ bot'.enabled # bot.enabled

RestartCycleEnds == uc.pc = "pause" /\ uc'.pc = "idle"

\* C7 as stated: stop, start and update_config never modify the cursor, and
\* when the stop/start cycle of a configuration change ends the cursor has
\* the value it had when the cycle began.
C7_CursorSameAfterCycle ==
    [][/\ ListenerCallStep => bot'.command_offset = bot.command_offset
       /\ RestartCycleEnds => bot'.command_offset = uc.before]_vars

\* C7 amended: no step of stop, start or update_config modifies the cursor,
\* and when the stop/start cycle of a configuration change ends the cursor
\* is not below the value it had when the cycle began (the worker still
\* running during the pause may have advanced it).
C7_CallsLeaveCursor ==
    [][/\ ListenerCallStep => bot'.command_offset = bot.command_offset
       /\ RestartCycleEnds => bot'.command_offset >= uc.before]_vars

C7_Witness ==
    /\ uc.last = "restarted"
    /\ bot.running
    /\ worker.pc = "loop"
    /\ processed # <<>>
    /\ bot.command_offset = processed[Len(processed)].cursor
    /\ bot.bot_token = "tokB"

\* C8: when update_config has changed the token or the chat id of a running
\* listener and returns, the running flag is true and a worker is alive and
\* goes on polling; in particular when the previous worker was blocked in
\* its fetch or in its backoff all through the pause.
C8_RestartLeavesListenerRunning ==
    [][(RestartCycleEnds /\ worker.pc \in {"fetch", "backoff"}) =>
          /\ bot'.running
          /\ worker'.pc \notin {"none", "exited"}]_vars


\* ============================================ claims under Spec: the grant
\* The positions of the entries of a log that carry the filename, and the
\* one nearest the front.
Matches(s, filename) == {i \in 1..Len(s) : s[i]["filename"] = filename}
FirstOf(S) == CHOOSE i \in S : \A j \in S : i <= j

Granted(entry) ==
    entry["access_granted"] = TRUE /\ entry["status"] = "granted"

GrantScansHistory == grant.pc = "history" /\ grant'.pc # "history"
GrantScansNotifications ==
    grant.pc = "notifications" /\ grant'.pc # "notifications"

\* C11: a manual grant sets access_granted = true and status "granted" on
\* the matching access record and on the matching notification, each log
\* being looked at under its lock; for a filename that neither log holds it
\* changes no entry, publishes no event and reports record_updated = false
\* and notification_updated = false.
C11_GrantSetsBothOrNothing ==
    [][/\ GrantScansHistory =>
            LET M == Matches(access_history, grant.filename) IN
            IF M # {}
            THEN grant'.record_updated /\ Granted(access_history'[FirstOf(M)])
            ELSE ~grant'.record_updated /\ access_history' = access_history
       /\ GrantScansNotifications =>
            LET M == Matches(notifications, grant.filename) IN
            IF M # {}
            THEN /\ grant'.notification_updated
                 /\ Granted(notifications'[FirstOf(M)])
            ELSE /\ ~grant'.notification_updated
                 /\ notifications' = notifications
                 /\ ~grant.record_updated =>
                       /\ grant'.pc = "done"
                       /\ grant'.events = <<>>
                       /\ ~grant'.record_updated]_vars

\* A grant has ended for a denied visitor that both logs held: the record
\* and the notification are granted and one event went out.
C11_Witness ==
    /\ grant.pc = "done"
    /\ grant.record_updated
    /\ grant.notification_updated
    /\ Len(grant.events) = 1
    /\ \E i \in Matches(access_history, grant.filename) :
          /\ Granted(access_history[i])
          /\ access_history[i]["recognized_person"] = NoValue
    /\ \E k \in Matches(notifications, grant.filename) :
          /\ Granted(notifications[k])
          /\ notifications[k]["recognition_result"] = "Acces permis manual"

\* C12: a manual grant mutates at most one entry of each log, the first
\* from the front whose filename matches; every other entry, later entries
\* with the same filename included, is left as it was, and so is the length
\* of the log.
C12_GrantTouchesFirstMatchOnly ==
    [][/\ GrantScansHistory =>
            LET M == Matches(access_history, grant.filename) IN
            /\ Len(access_history') = Len(access_history)
            /\ notifications' = notifications
            /\ \A j \in 1..Len(access_history) :
                  (M = {} \/ j # FirstOf(M)) =>
                     access_history'[j] = access_history[j]
       /\ GrantScansNotifications =>
            LET M == Matches(notifications, grant.filename) IN
            /\ Len(notifications') = Len(notifications)
            /\ access_history' = access_history
            /\ \A j \in 1..Len(notifications) :
                  (M = {} \/ j # FirstOf(M)) =>
                     notifications'[j] = notifications[j]
       /\ (grant.pc = "publish" /\ grant'.pc = "done") =>
            /\ access_history' = access_history
            /\ notifications' = notifications]_vars

\* The access log held two records with the filename when it was scanned:
\* the one nearer the front is granted, the other untouched.
C12_Witness ==
    /\ grant.pc \in {"notifications", "publish", "done"}
    /\ \E i, j \in Matches(access_history, grant.filename) :
          /\ i < j
          /\ i = FirstOf(Matches(access_history, grant.filename))
          /\ "manual_grant_timestamp" \in DOMAIN access_history[i]
          /\ "manual_grant_timestamp" \notin DOMAIN access_history[j]
          /\ ~Granted(access_history[j])


\* ==================================================== claims under SpecPool
Raises(t) == task[t].pc = "running" /\ task'[t].future = "returned_none"

\* C13: a task that raises in the pool is caught at the worker boundary:
\* its future resolves, with None and never with the exception; the worker
\* that ran it is free again; and every task that is queued is run to its
\* end, whatever the tasks before it did.
C13_RaiseIsContained ==
    /\ [](\A t \in PoolIds :
            /\ task[t].future # "raised"
            /\ task[t].effects = <<"raise">> =>
                  task[t].pc = "done" /\ task[t].future = "returned_none")
    /\ [][\A t \in PoolIds :
            Raises(t) =>
               /\ Busy' = Busy \ {t}
               /\ queue' = queue
               /\ \A u \in PoolIds \ {t} : task'[u] = task[u]]_vars
    /\ \A t \in PoolIds :
          (task[t].pc = "queued") ~> (task[t].pc = "done")

\* Both workers have run a task that raised, and the tasks submitted after
\* them have been run to their end.
C13_Witness ==
    /\ task[1].effects = <<"raise">>
    /\ task[2].effects = <<"raise">>
    /\ \A t \in 3..MaxPoolTasks :
          task[t].pc = "done" /\ task[t].future = "returned_value"


\* ==================================================== claims under SpecTemp
ScopeExits(s) == scope[s].pc = "finally" /\ scope'[s].pc = "exited"

CleansUp(s) ==
    /\ scope[s].pc \in {"body_cleanup", "finally"}
    /\ scope'[s].pc # scope[s].pc

\* C14: whenever a temp_image_file scope exits, its body having completed
\* or raised, the file is deleted and no longer tracked; and a cleanup of a
\* path that is not on disk any more, or not tracked any more, changes
\* nothing but the tracking of that path.
C14_ScopeExitDeletes ==
    [][\A s \in ScopeIds :
         /\ ScopeExits(s) =>
               /\ TempPath(s) \notin disk'
               /\ TempPath(s) \notin temp_files'
         /\ (CleansUp(s) /\ (TempPath(s) \notin disk
                               \/ TempPath(s) \notin temp_files)) =>
               /\ disk' = disk
               /\ temp_files' = temp_files \ {TempPath(s)}]_vars

\* C15: cleanup_all, called while any number of files is tracked, ends, and
\* so is never left waiting for the lock it holds itself.
C15_CleanupAllEnds ==
    ~(shutdown.pc = "cleanup_file" /\ rm_lock = AtExit)


\* ------------------------------------- claims under SpecBot: the listener loop
Failed == worker.pc \in {"timeout", "backoff"}

\* C16: while running is true no outcome of a fetch or of the processing of
\* an update ends the loop: the worker is never stuck, it leaves the loop
\* only at the loop test and only with running false, a timeout leads back
\* to the loop test, an error to the sleep and then to the loop test, and the
\* loop test with running true leads to the next fetch.
C16_FailuresKeepListening ==
    /\ [](is_alive => ENABLED WorkerStep)
    /\ [][/\ (worker.pc # "exited" /\ worker'.pc = "exited")
              => (worker.pc = "loop" /\ ~bot.running)
          /\ (worker.pc = "fetch" /\ worker' # worker)
              => worker'.pc \in {"batch", "loop", "timeout", "backoff"}
          /\ (worker.pc = "process" /\ worker' # worker)
              => worker'.pc \in {"batch", "loop", "backoff"}
          /\ (Failed /\ worker' # worker) => worker'.pc = "loop"
          /\ (worker.pc = "loop" /\ bot.running /\ worker' # worker)
              => worker'.pc = "request"
          /\ (worker.pc = "request" /\ worker' # worker)
              => worker'.pc = "fetch"]_vars
    /\ Failed ~> (worker.pc \in {"fetch", "exited"})

\* An update raised while it was processed and the worker fetches again.
C16_Witness ==
    /\ processed # <<>>
    /\ processed[Len(processed)].reply = "raised"
    /\ worker.pc = "fetch"
    /\ bot.running


\* The listener threads that are alive.
Alive == detached + (IF is_alive THEN 1 ELSE 0)

\* C17: start_command_listener creates a thread only when no listener thread
\* is alive and the bot is configured, and otherwise leaves the bot and its
\* threads as they are; at most one listener thread is alive at any time.
C17_OneListener ==
    /\ [](Alive <= 1)
    /\ [](Starts(bot, is_alive) => (~is_alive /\ is_configured(bot)))
    /\ [](~Starts(bot, is_alive)
            => /\ start_command_listener(bot, is_alive) = bot
               /\ Detached(bot, is_alive) = detached)
    /\ [][Alive' > Alive => (Alive = 0 /\ is_configured(bot))]_vars

\* A listener is alive while the flag is false: the next start finds it
\* alive and returns.
C17_Witness ==
    /\ is_alive
    /\ bot.command_thread
    /\ ~bot.running
    /\ ~Starts(bot, is_alive)


\* An upper bound of the steps the worker has left once the flag is false.
Measure(w) ==
    CASE w.pc = "request" -> 2 * MaxUpdates + 4
      [] w.pc = "fetch" -> 2 * MaxUpdates + 3
      [] w.pc = "batch" -> 2 * Len(w.batch) + 2
      [] w.pc = "process" -> 2 * Len(w.batch) + 1
      [] w.pc \in {"timeout", "backoff"} -> 2
      [] w.pc = "loop" -> 1
      [] OTHER -> 0

Stopping == is_alive /\ ~bot.running

\* C18: stop_command_listener leaves the worker where it is; from then on,
\* with the flag still false, every step of the worker brings it nearer to
\* its end: the fetch in flight returns and its batch is processed, a
\* request is sent only if the loop test was passed before the stop, no
\* request follows a fetch, and the worker terminates.
C18_StopEndsAtIterationBoundary ==
    /\ [][(bot.running /\ ~bot'.running) => worker' = worker]_vars
    /\ [][(Stopping /\ worker' # worker)
              => Measure(worker') < Measure(worker)]_vars
    /\ [][(Stopping /\ worker.pc # "request") => worker'.pc # "request"]_vars
    /\ [](Stopping => ENABLED WorkerStep)
    /\ Stopping ~> (worker.pc = "exited" \/ bot.running)

\* The stop came between the loop test and the request: the one further
\* fetch is about to begin.
C18_Witness == Stopping /\ worker.pc = "request" /\ processed # <<>>


\* ------------------------------------ claims under SpecBot: dispatch order
\* The i-th update the listener took from a batch went to handle_command.
Dispatched(i) == processed[i].reply \notin {"no_reply", "raised"}

\* C19: with a source that returns the updates at or above the requested
\* offset in ascending order, the ids of the updates given to handle_command
\* are strictly increasing in the order of dispatch; no id is dispatched
\* twice.
C19_DispatchOnceInOrder ==
    \A i, j \in 1..Len(processed) :
       (i < j /\ Dispatched(i) /\ Dispatched(j))
          => processed[i].update.update_id < processed[j].update.update_id

\* Two commands of one batch were dispatched one after the other.
C19_Witness ==
    \E i, j \in 1..Len(processed) :
       /\ i < j
       /\ Dispatched(i)
       /\ Dispatched(j)
       /\ processed[i].token = processed[j].token


\* ------------------------------------- claims under SpecLoop: the backoff
\* C20: a fetch that times out is followed by the loop test and the next
\* request with no sleep in between; a status other than 200 and any other
\* exception are followed by one sleep and then the loop test; a fetch that
\* ends in one of these ways leaves the cursor as it was.
C20_BackoffOnErrorsOnly ==
    /\ [](worker.pc = "fetch"
            => /\ AfterFetch(worker, "timeout").pc = "timeout"
               /\ AfterFetch(worker, "status_error").pc = "backoff"
               /\ AfterFetch(worker, "exception").pc = "backoff")
    /\ [][(worker.pc \in {"timeout", "backoff"} /\ worker' # worker)
              => worker'.pc = "loop"]_vars
    /\ [][(worker.pc = "loop" /\ worker' # worker)
              => worker'.pc \in {"request", "exited"}]_vars
    /\ [][(worker.pc = "fetch" /\ worker'.pc \in {"timeout", "backoff"})
              => bot'.command_offset = bot.command_offset]_vars

\* A fetch timed out after updates were processed: the cursor is where the
\* last update left it.
C20_Witness ==
    /\ worker.pc = "timeout"
    /\ processed # <<>>
    /\ bot.command_offset =
          processed[Len(processed)].update.update_id + 1


\* ----------------------------------- claims under SpecBot: update_config
\* The step is an update_config call that changed the enabled flag and
\* neither the token nor the chat id.
EnabledOnlyStep ==
    /\ bot'.enabled # bot.enabled
    /\ bot'.bot_token = bot.bot_token
    /\ bot'.chat_id = bot.chat_id

\* C21: update_config called with a token and a chat id that are absent or
\* equal to the current ones asks for no restart, and the call that changes
\* only the enabled flag leaves the running flag, the thread, the worker
\* and the cursor as they are and returns without the pause.
C21_EnabledOnlyNoRestart ==
    /\ [](\A bot_token \in {NoValue, bot.bot_token},
             chat_id \in {NoValue, bot.chat_id} :
             ~restart_needed(bot, bot_token, chat_id))
    /\ [][EnabledOnlyStep
            => /\ bot'.running = bot.running
               /\ bot'.command_thread = bot.command_thread
               /\ bot'.command_offset = bot.command_offset
               /\ worker' = worker
               /\ detached' = detached
               /\ uc'.pc = "idle"
               /\ uc'.last = "no_restart"]_vars

\* The flag was switched off while the listener runs, after an update was
\* processed: the worker is alive and the flag is still true.
C21_Witness ==
    /\ ~bot.enabled
    /\ uc.last = "no_restart"
    /\ bot.running
    /\ is_alive
    /\ bot.command_offset > 0


\* -------------------------------------- claims under Spec: one pipeline run
IsPrefix(s, t) == Len(s) <= Len(t) /\ s = SubSeq(t, 1, Len(s))

Pipelines == {t \in TaskIds : task[t].kind = "pipeline"}

\* The effects of a whole run, in the order of the function's statements.
PipelineEffects(access_granted) ==
    <<"recognize", "add_record", "add_notification", "notify">>
    \o (IF access_granted THEN <<"open_door">> ELSE <<>>)
    \o <<"publish">>

Count(s, x) == Cardinality({k \in 1..Len(s) : s[k] = x})

\* C22: the effects a pipeline run has had so far are an initial part of:
\* recognizer, access record, notification, notifier, actuator if granted,
\* event; the run is at the step after the last of them.
C22_EffectsInFixedOrder ==
    \A t \in Pipelines :
       IF task[t].result = Unset
       THEN task[t].effects = <<>>
       ELSE /\ IsPrefix(task[t].effects,
                        PipelineEffects(task[t].result["access_granted"]))
            /\ (task[t].pc = "done")
                 = (task[t].effects =
                      PipelineEffects(task[t].result["access_granted"]))

\* Two runs are under way at different steps, one of them past the door.
C22_Witness ==
    \E t, u \in Pipelines :
       /\ task[t].pc = "publish"
       /\ "open_door" \in {task[t].effects[k] :
                             k \in 1..Len(task[t].effects)}
       /\ task[u].pc = "add_notification"


Position(s, x) == CHOOSE k \in 1..Len(s) : s[k] = x

\* C23: no outcome of the notifier leaves the try statement around it and
\* no outcome of the actuator leaves open_door as an exception; a run
\* publishes when it has done everything else, so it has published at most
\* one event at any time, exactly one when it is done, and that one after
\* its two insertions.
C23_OneEventPerRun ==
    \A t \in Pipelines :
       /\ task[t].pc = "notify"
            => \A o \in NotifierOutcomes : TryNotifier(o) = "passed"
       /\ task[t].pc = "open_door"
            => \A o \in ActuatorOutcomes :
                  "success" \in DOMAIN open_door_result(o)
       /\ Len(task[t].events) = Count(task[t].effects, "publish")
       /\ Len(task[t].events) = IF task[t].pc = "done" THEN 1 ELSE 0
       /\ task[t].events # <<>>
            => /\ Count(task[t].effects, "add_record") = 1
               /\ Count(task[t].effects, "add_notification") = 1
               /\ Position(task[t].effects, "add_record")
                     < Position(task[t].effects, "publish")
               /\ Position(task[t].effects, "add_notification")
                     < Position(task[t].effects, "publish")

\* A granted run is done: it called the notifier and the door and has
\* published its event.
C23_Witness ==
    \E t \in Pipelines :
       /\ task[t].pc = "done"
       /\ task[t].result["access_granted"]
       /\ Count(task[t].effects, "notify") = 1
       /\ Count(task[t].effects, "open_door") = 1
       /\ Len(task[t].events) = 1

\* C24: a run calls open_door at most once, and only with a granted
\* verdict; a run whose verdict is denied or error never calls it.
C24_DoorOnlyWhenGranted ==
    \A t \in Pipelines :
       /\ Count(task[t].effects, "open_door") <= 1
       /\ (task[t].pc = "open_door"
             \/ Count(task[t].effects, "open_door") = 1)
            => /\ task[t].result["access_granted"]
               /\ task[t].result["status"] = "granted"
               /\ task[t].recognizer = "match"
       /\ (task[t].pc = "done" /\ task[t].recognizer = "match")
            => Count(task[t].effects, "open_door") = 1

\* A run with an error verdict and a granted run are both done.
C24_Witness ==
    \E t, u \in Pipelines :
       /\ task[t].pc = "done"
       /\ task[t].result["status"] = "error"
       /\ Count(task[t].effects, "open_door") = 0
       /\ task[u].pc = "done"
       /\ Count(task[u].effects, "open_door") = 1


\* ------------------------------------- claims under SpecRuns: the event type
\* C25: the event of a run has type new_visitor for the tag automatic,
\* stream_face_recognized or stream_face_denied for the tag
\* stream_detection, by the granted flag of the verdict, and
\* face_recognition_complete for any other tag.
C25_EventTypeByMethodAndGrant ==
    \A t \in Pipelines :
       \A k \in 1..Len(task[t].events) :
          task[t].events[k].type =
             CASE task[t].method = <<"automatic">> -> "new_visitor"
               [] task[t].method = <<"stream_detection">>
                    /\ task[t].result["access_granted"] ->
                       "stream_face_recognized"
               [] task[t].method = <<"stream_detection">>
                    /\ ~task[t].result["access_granted"] ->
                       "stream_face_denied"
               [] OTHER -> "face_recognition_complete"

\* A denied stream run and a run with another tag have published.
C25_Witness ==
    \E t, u \in Pipelines :
       /\ task[t].events # <<>>
       /\ task[t].events[1].type = "stream_face_denied"
       /\ task[u].events # <<>>
       /\ task[u].events[1].type = "face_recognition_complete"


\* -------------------------------- claims under Spec: the grant and the logs
\* C26: the access_granted_manual event of a grant carries a record that is
\* granted, with status granted and a method ending in _manual_override.
C26_GrantEventCarriesUpdatedRecord ==
    \A k \in 1..Len(grant.events) :
       LET data == grant.events[k].data IN
       /\ grant.events[k].type = "access_granted_manual"
       /\ data["access_granted"]
       /\ data["status"] = "granted"
       /\ data["method"][Len(data["method"])] = "_manual_override"


\* The record was granted by hand.
ForceGranted(record) ==
    record["method"][Len(record["method"])] = "_manual_override"

\* The notification was made from the record.
NotificationOf(notification, record) ==
    /\ notification["filename"] = record["filename"]
    /\ notification["timestamp"] = record["timestamp"]

\* C27: whenever a record of the access log is force-granted, its
\* notification, if it is in the notification log, is granted too.
C27_GrantUpdatesBothAtOnce ==
    \A i \in 1..Len(access_history), j \in 1..Len(notifications) :
       (ForceGranted(access_history[i])
          /\ NotificationOf(notifications[j], access_history[i]))
         => /\ notifications[j]["access_granted"]
            /\ notifications[j]["status"] = "granted"


\* ------------------------------------ claims under SpecHub: one stream
\* C28: the first thing a stream emits is the connected event, and it emits
\* it after its inbox was appended to the registry; each later emission is
\* the oldest message of its inbox, taken out of the inbox, when there is
\* one, and a ping, with the inbox untouched, when there is none.
C28_ConnectedThenOnePerTick ==
    [][\A c \in StreamIds :
         /\ (stream[c].pc = "new" /\ stream'[c].pc # "new")
              => /\ stream'[c].pc = "registered"
                 /\ stream'[c].last = NoValue
                 /\ sse_clients' = Append(sse_clients, c)
         /\ (stream[c].last = NoValue /\ stream'[c].last # NoValue)
              => /\ stream[c].pc = "registered"
                 /\ stream'[c].last = "connected"
                 /\ stream'[c].emitted = <<>>
         /\ (stream[c].pc = "streaming" /\ stream'[c].pc = "streaming"
               /\ stream'[c] # stream[c])
              => IF client_queue[c] # <<>>
                 THEN /\ stream'[c].last = "event"
                      /\ stream'[c].emitted =
                            Append(stream[c].emitted, Head(client_queue[c]))
                      /\ client_queue'[c] = Tail(client_queue[c])
                 ELSE /\ stream'[c].last = "ping"
                      /\ stream'[c].emitted = stream[c].emitted
                      /\ client_queue'[c] = <<>>]_vars

\* A stream has emitted two events, a third is pending.
C28_Witness ==
    \E c \in StreamIds :
       /\ stream[c].pc = "streaming"
       /\ stream[c].last = "event"
       /\ Len(stream[c].emitted) = 2
       /\ client_queue[c] # <<>>


\* C29: the registry holds the inbox of every stream that is connected,
\* once, and the inbox of no stream that has disconnected.
C29_DisconnectRemovesOwnInbox ==
    \A c \in StreamIds :
       /\ Connected(c) => Entries(c) = 1
       /\ stream[c].pc = "closed" => Entries(c) = 0


\* --------------------------------------- claims under SpecLocks: the locks
\* C30: a thread is inside at most one of the three with blocks at a time
\* and inside none of them during an external call; as long as a thread has
\* statements left, some thread can take its next statement.
C30_OneLockAndNoneInCalls ==
    /\ \A th \in ThreadIds :
          /\ Cardinality(HeldBy(th)) <= 1
          /\ InCall(th) => HeldBy(th) = {}
          /\ Finished(th) => HeldBy(th) = {}
    /\ (\E th \in ThreadIds : thread[th].kind # "none" /\ ~Finished(th))
          => \E th \in ThreadIds : ENABLED ThreadStep(th)

\* A grant holds access_history_lock, a pipeline run waits for it and a
\* third thread is inside the recognizer.
C30_Witness ==
    \E a, b, c \in ThreadIds :
       /\ thread[a].kind = "grant"
       /\ held["access_history_lock"] = a
       /\ thread[b].kind = "pipeline"
       /\ thread[b].pc = 3
       /\ thread[c].kind = "pipeline"
       /\ InCall(c)


\* ===================================================== claims under SpecDoor
\* The listener is about to run handle_command on /open from its own chat.
AuthorizedOpenNext ==
    /\ worker.pc = "process"
    /\ Dispatches(bot, Head(worker.batch))
    /\ CallsDoor(bot, Head(worker.batch).message.text)

\* C31: the step of the listener that handles an authorized /open appends
\* exactly one telegram_open_door event to every inbox that is in the
\* registry at that moment and to no other inbox, and it does nothing to
\* the pipeline runs, among them their actuator calls: the listener does
\* not call the actuator.
C31_OpenPublishesOneEventToEveryInbox ==
    [][AuthorizedOpenNext /\ ProcessUpdate =>
         /\ \A c \in StreamIds :
               client_queue'[c] =
                  IF \E i \in 1..Len(sse_clients) : sse_clients[i] = c
                  THEN Append(client_queue[c], DoorEvent(now))
                  ELSE client_queue[c]
         /\ DoorEvent(now).type = "telegram_open_door"
         /\ UNCHANGED appVars
         /\ \A k \in 1..Len(Program("listener")) :
               Program("listener")[k].arg # "actuator"]_vars

C31_Witness ==
    /\ \E i \in DOMAIN processed : processed[i].door_calls = 1
    /\ Len(sse_clients) = MaxStreams
    /\ \A c \in StreamIds :
          /\ client_queue[c] # <<>>
          /\ client_queue[c][Len(client_queue[c])].type = "telegram_open_door"
          /\ owed[c] = client_queue[c]


\* -------------------- claims under Spec: the two logs and the same attempt
\* The notification was changed by a grant.
GrantedByHand(notification) ==
    notification["recognition_result"] = "Acces permis manual"

\* C32: a record of the access log changed by the grant and a notification
\* of the notification log changed by the grant are of the same attempt:
\* same filename and same timestamp.
C32_GrantUpdatesSameAttempt ==
    \A i \in 1..Len(access_history), j \in 1..Len(notifications) :
       (ForceGranted(access_history[i]) /\ GrantedByHand(notifications[j]))
         => NotificationOf(notifications[j], access_history[i])


\* ===================================================== claims under SpecLogs
\* C33: every notification of the notification log has the record it was
\* made from (same filename, same timestamp) in the access log.
C33_NotificationHasItsRecord ==
    \A j \in 1..Len(notifications) :
       \E i \in 1..Len(access_history) :
          NotificationOf(notifications[j], access_history[i])


\* --------------------------------- claims under SpecBot: the enabled flag
\* C34: with enabled false and the listener running, the step that takes
\* an update from the batch moves the cursor past it, and the step that
\* handles /open from the configured chat calls the door callback once
\* (one event published), gets the reply of a sent command from
\* handle_command and does not send it; an /open handled without a reply
\* sent has had exactly one door call.
C34_CommandsIgnoreEnabled ==
    /\ [][(~bot.enabled /\ worker.pc = "batch" /\ worker' # worker)
            => bot'.command_offset
                  = Head(worker.batch).update_id + 1]_vars
    /\ [][(~bot.enabled /\ worker.pc = "process" /\ worker' # worker
            /\ IsOpen([update |-> Head(worker.batch)])
            /\ Authorized(Head(worker.batch).message.chat.id, bot.chat_id))
           => /\ Len(processed') = Len(processed) + 1
              /\ processed'[Len(processed')].door_calls = 1
              /\ processed'[Len(processed')].reply = "command_sent"
              /\ ~processed'[Len(processed')].replied
              /\ processed'[Len(processed')].cursor
                    > Head(worker.batch).update_id
              /\ now' = now + 1]_vars
    /\ [](\A i \in DOMAIN processed :
            (IsOpen(processed[i]) /\ FromConfiguredChat(processed[i])
               /\ ~processed[i].replied)
              => DoorCalls(processed[i].token,
                           processed[i].update.update_id) = 1)

C34_Witness ==
    /\ ~bot.enabled
    /\ is_alive
    /\ \E i \in DOMAIN processed :
          /\ IsOpen(processed[i])
          /\ processed[i].door_calls = 1
          /\ ~processed[i].replied
          /\ processed[i].token = worker.token
          /\ bot.command_offset > processed[i].update.update_id

====
